---- MODULE Spec2Model ----
(***************************************************************************)
(* Verification model of the multiresolution-cosmology scripts.            *)
(*                                                                         *)
(* Spec        : api_cryptographic_proof_system.py -- the API-key cache of *)
(*               get_api_key and the run of main.                          *)
(***************************************************************************)
EXTENDS Integers, Sequences, FiniteSets, TLC

(***************************************************************************)
(* Bounds of the model.                                                    *)
(***************************************************************************)
\* value of time.time() when the process starts (any value >= the interval)
StartTime == 1000
\* the clock is followed for this many seconds after the start
MaxElapsed == 120
\* number of token requests that library calls outside main may send
MaxRequests == 2

(***************************************************************************)
(* Program constants.                                                      *)
(***************************************************************************)
API_KEY_REQUEST_INTERVAL == 60
KIDS_N_BINS == 5
DES_N_BINS == 4
HSC_N_BINS == 4

None == "None"
DEMO_API_KEY == "DEMO_API_KEY_OFFLINE_MODE"
\* tokens the token endpoint may issue
Tokens == {"tokenA", "tokenB"}
\* what can come back from the POST to the token endpoint: a token, a
\* requests.exceptions.RequestException (connection error, timeout, HTTP
\* error status) or a response body without a token
TokenResponses == Tokens \cup {"RequestException", "no_token"}
\* what can come back from the POST to the UHA encode endpoint
EncodeResponses == {"uha_code", "error"}
\* the outcome of opening and writing an output file
IoOutcomes == {"ok", "open_fails", "write_fails"}
\* the seconds the clock may advance between two steps
TickSteps == {30, 60}

RESULTS_FILE == "three_survey_api_validation.json"
PROOF_FILE == "api_proof_results.json"
OutputFiles == {RESULTS_FILE, PROOF_FILE}

VARIABLES
    OFFLINE_MODE,               \* module constant, set before the run
    LAST_API_KEY_REQUEST_TIME,  \* module global
    CURRENT_API_KEY,            \* module global
    now,                        \* time.time()
    tokenRequestTimes,          \* times at which a token request was sent
    lastCall,                   \* the last get_api_key call and its outcome
    pc,                         \* position of main
    binsDone,                   \* bins analysed so far in step 2
    uhaUnavailable,             \* bins whose uha_sample is API_UNAVAILABLE
    encodeRequests,             \* requests sent to the UHA encode endpoint
    tokenFailedInRun,           \* a token request of this run failed
    written,                    \* what this run wrote of each output file
    auditLog,                   \* entries this run appended to the audit log
    exitCode,                   \* <<>> while main runs, then <<code>>
    results,                    \* <<>>, then <<the results main holds>>
    savedResults,               \* <<>>, then <<text of the results file>>
    savedProof,                 \* <<>>, then <<content of the proof file>>
    \* --- the file-driven scripts (SpecScripts) ---
    script,                     \* the script that is run
    inputs,                     \* state of each input file of the script
    spc,                        \* position of the script
    loaded,                     \* what the script has loaded so far
    reported,                   \* input files whose absence was reported
    termination,                \* how the script ended, "running" before
    outputWritten,              \* the script wrote its output file
    \* --- calls of the numerical functions (SpecCalc) ---
    op,                         \* the function called last
    args,                       \* its arguments
    result,                     \* its outcome
    \* --- the configuration modules and a caller (SpecConfig) ---
    ALL_SURVEYS,                \* config.surveys: the SurveyMetadata objects
    RESOLUTION_SCHEDULES,       \* config.resolution: the schedule lists
    PLANCK_COSMO,               \* config.constants: the Planck dictionary
    held,                       \* the object the caller got from its last call
    observed,                   \* what the last accessor call returned
    \* --- the validation test runner (SpecTests) ---
    test_suites,                \* ValidationTestRunner.test_suites
    suite,                      \* <<>>, or <<the suite that is being run>>
    rpc,                        \* position of run_all_tests
    body                        \* what the test body run last did

vars == <<OFFLINE_MODE, LAST_API_KEY_REQUEST_TIME, CURRENT_API_KEY, now,
          tokenRequestTimes, lastCall, pc, binsDone, uhaUnavailable,
          encodeRequests, tokenFailedInRun, written, auditLog, exitCode,
          results, savedResults, savedProof,
          script, inputs, spc, loaded, reported, termination, outputWritten,
          op, args, result,
          ALL_SURVEYS, RESOLUTION_SCHEDULES, PLANCK_COSMO, held, observed,
          test_suites, suite, rpc, body>>

apiVars == <<LAST_API_KEY_REQUEST_TIME, CURRENT_API_KEY, tokenRequestTimes,
             lastCall>>
scriptVars == <<script, inputs, spc, loaded, reported, termination,
                outputWritten>>
calcVars == <<op, args, result>>
cfgVars == <<ALL_SURVEYS, RESOLUTION_SCHEDULES, PLANCK_COSMO, held, observed>>
testVars == <<test_suites, suite, rpc, body>>
fileVars == <<results, savedResults, savedProof>>
mainVars == <<pc, binsDone, uhaUnavailable, encodeRequests, tokenFailedInRun,
              written, auditLog, exitCode, fileVars>>
proofVars == <<OFFLINE_MODE, now, apiVars, mainVars>>

TotalBins == KIDS_N_BINS + DES_N_BINS + HSC_N_BINS

\* get_api_key as it would be if the timestamp were stored before the response
\* is examined: a failed request also moves LAST_API_KEY_REQUEST_TIME
get_api_key_stamps_failures(force_new, resp) ==
    LET time_since_last_request == now - LAST_API_KEY_REQUEST_TIME
        unchanged == [key |-> CURRENT_API_KEY,
                      last |-> LAST_API_KEY_REQUEST_TIME]
    IN  IF OFFLINE_MODE
        THEN [ret |-> DEMO_API_KEY, raised |-> None, sent |-> FALSE] @@ unchanged
        ELSE IF CURRENT_API_KEY # None /\ ~force_new
        THEN [ret |-> CURRENT_API_KEY, raised |-> None, sent |-> FALSE] @@ unchanged
        ELSE IF time_since_last_request < API_KEY_REQUEST_INTERVAL
        THEN [ret |-> None, raised |-> "rate_limit", sent |-> FALSE] @@ unchanged
        ELSE IF resp \in Tokens
        THEN [ret |-> resp, raised |-> None, sent |-> TRUE,
              key |-> resp, last |-> now]
        ELSE [ret |-> None, raised |-> resp, sent |-> TRUE,
              key |-> CURRENT_API_KEY, last |-> now]

\* get_api_key as it would be if the rate limit were tested before the cache
get_api_key_rate_limit_first(force_new, resp) ==
    LET time_since_last_request == now - LAST_API_KEY_REQUEST_TIME
        unchanged == [key |-> CURRENT_API_KEY,
                      last |-> LAST_API_KEY_REQUEST_TIME]
    IN  IF OFFLINE_MODE
        THEN [ret |-> DEMO_API_KEY, raised |-> None, sent |-> FALSE] @@ unchanged
        ELSE IF time_since_last_request < API_KEY_REQUEST_INTERVAL
        THEN [ret |-> None, raised |-> "rate_limit", sent |-> FALSE] @@ unchanged
        ELSE IF CURRENT_API_KEY # None /\ ~force_new
        THEN [ret |-> CURRENT_API_KEY, raised |-> None, sent |-> FALSE] @@ unchanged
        ELSE IF resp \in Tokens
        THEN [ret |-> resp, raised |-> None, sent |-> TRUE,
              key |-> resp, last |-> now]
        ELSE [ret |-> None, raised |-> resp, sent |-> TRUE] @@ unchanged

(***************************************************************************)
(* get_api_key(force_new): the outcome of one call in the current state,   *)
(* when the token endpoint would answer resp.  ret is the returned key     *)
(* (None when the call raises), raised the exception, sent whether a token *)
(* request went out, key and last the globals after the call.              *)
(***************************************************************************)
get_api_key(force_new, resp) ==
    LET time_since_last_request == now - LAST_API_KEY_REQUEST_TIME
        unchanged == [key |-> CURRENT_API_KEY,
                      last |-> LAST_API_KEY_REQUEST_TIME]
    IN  IF OFFLINE_MODE
        THEN [ret |-> DEMO_API_KEY, raised |-> None, sent |-> FALSE] @@ unchanged
        ELSE IF CURRENT_API_KEY # None /\ ~force_new
        THEN [ret |-> CURRENT_API_KEY, raised |-> None, sent |-> FALSE] @@ unchanged
        ELSE IF time_since_last_request < API_KEY_REQUEST_INTERVAL
        THEN [ret |-> None, raised |-> "rate_limit", sent |-> FALSE] @@ unchanged
        ELSE IF resp \in Tokens
        THEN [ret |-> resp, raised |-> None, sent |-> TRUE,
              key |-> resp, last |-> now]
        ELSE [ret |-> None, raised |-> resp, sent |-> TRUE] @@ unchanged

\* the globals and the request log after a get_api_key call with outcome r
ApplyCall(force_new, r) ==
    /\ CURRENT_API_KEY' = r.key
    /\ LAST_API_KEY_REQUEST_TIME' = r.last
    /\ tokenRequestTimes' = IF r.sent THEN Append(tokenRequestTimes, now)
                            ELSE tokenRequestTimes
    /\ lastCall' = [force_new |-> force_new, ret |-> r.ret,
                    raised |-> r.raised, sent |-> r.sent]

\* log_audit_trail(message): one entry appended to api_proof_log.txt
log_audit_trail(log, message) == Append(log, message)

\* no script is run
\* the published values of the configuration modules: S8 in thousandths,
\* effective redshifts in hundredths, Planck parameters in thousandths
KIDS_S8 == 759
DES_S8 == 776
HSC_S8 == 780
KIDS_S8_SIGMA == 24
DES_S8_SIGMA == 17
HSC_S8_SIGMA == 33
KIDS_Z_EFFECTIVE == <<10, 40, 60, 80, 100>>
DES_Z_EFFECTIVE == <<30, 50, 70, 95>>
HSC_Z_EFFECTIVE == <<40, 75, 110, 135>>
SURVEY_NAMES == {"kids", "des", "hsc"}
KIDS_1000 == [S8_measured |-> KIDS_S8, S8_sigma |-> KIDS_S8_SIGMA,
              n_bins |-> KIDS_N_BINS, z_effective |-> KIDS_Z_EFFECTIVE]
DES_Y3 == [S8_measured |-> DES_S8, S8_sigma |-> DES_S8_SIGMA,
           n_bins |-> DES_N_BINS, z_effective |-> DES_Z_EFFECTIVE]
HSC_Y3 == [S8_measured |-> HSC_S8, S8_sigma |-> HSC_S8_SIGMA,
           n_bins |-> HSC_N_BINS, z_effective |-> HSC_Z_EFFECTIVE]
PublishedSurveys ==
    [name \in SURVEY_NAMES |-> IF name = "kids" THEN KIDS_1000
                               ELSE IF name = "des" THEN DES_Y3 ELSE HSC_Y3]
RESOLUTION_SCHEDULE_FULL == <<8, 12, 16, 20, 24, 28, 32>>
RESOLUTION_SCHEDULE_SHORT == <<8, 12, 16, 20, 24>>
RESOLUTION_SCHEDULE_COARSE == <<8, 16, 24, 32>>
ScheduleModes == {"full", "short", "coarse", "default"}
PublishedSchedules ==
    [mode \in ScheduleModes |-> IF mode = "short" THEN RESOLUTION_SCHEDULE_SHORT
                                ELSE IF mode = "coarse" THEN RESOLUTION_SCHEDULE_COARSE
                                ELSE RESOLUTION_SCHEDULE_FULL]
PublishedPlanck == [h0 |-> 67360, omega_m |-> 315, omega_lambda |-> 685,
                    sigma_8 |-> 811, s8 |-> 834]

ConfigIdle ==
    /\ ALL_SURVEYS = PublishedSurveys
    /\ RESOLUTION_SCHEDULES = PublishedSchedules
    /\ PLANCK_COSMO = PublishedPlanck
    /\ held = [kind |-> "none"]
    /\ observed = [call |-> "none"]

\* a ValidationTestRunner has been constructed and has run nothing
TestsIdle ==
    /\ test_suites = <<>>
    /\ suite = <<>>
    /\ rpc = "idle"
    /\ body = "none"

ScriptsIdle ==
    /\ script = "none"
    /\ inputs = <<>>
    /\ spc = "none"
    /\ loaded = <<>>
    /\ reported = {}
    /\ termination = "running"
    /\ outputWritten = FALSE

\* no numerical function has been called
CalcIdle ==
    /\ op = "none"
    /\ args = <<>>
    /\ result = <<>>

\* the proof script's module is loaded and main has not started
ProofIdle ==
    /\ LAST_API_KEY_REQUEST_TIME = 0
    /\ CURRENT_API_KEY = None
    /\ now = StartTime
    /\ tokenRequestTimes = <<>>
    /\ lastCall = [force_new |-> FALSE, ret |-> None, raised |-> None,
                   sent |-> FALSE]
    /\ pc = "idle"
    /\ binsDone = 0
    /\ uhaUnavailable = 0
    /\ encodeRequests = 0
    /\ tokenFailedInRun = FALSE
    /\ written = [f \in OutputFiles |-> "nothing"]
    /\ auditLog = <<>>
    /\ exitCode = <<>>
    /\ results = <<>>
    /\ savedResults = <<>>
    /\ savedProof = <<>>

Init ==
    /\ ScriptsIdle
    /\ CalcIdle
    /\ ConfigIdle
    /\ TestsIdle
    /\ ProofIdle
    /\ OFFLINE_MODE \in BOOLEAN

\* time passes
Tick ==
    /\ pc \notin {"exited", "returned"}
    /\ \E d \in TickSteps :
        /\ now + d <= StartTime + MaxElapsed
        /\ now' = now + d
    /\ UNCHANGED <<scriptVars, calcVars, cfgVars, testVars>>
    /\ UNCHANGED <<OFFLINE_MODE, apiVars, mainVars>>

\* a call of get_api_key from code that imported the module, before main
CallGetApiKey ==
    /\ pc = "idle"
    /\ Len(tokenRequestTimes) < MaxRequests
    /\ \E force_new \in BOOLEAN, resp \in TokenResponses :
        ApplyCall(force_new, get_api_key(force_new, resp))
    /\ UNCHANGED <<scriptVars, calcVars, cfgVars, testVars>>
    /\ UNCHANGED <<OFFLINE_MODE, now, mainVars>>

\* main, lines 578-600: banner and the three session entries of the log
MainStart ==
    /\ pc = "idle"
    /\ pc' = "step1"
    /\ auditLog' = log_audit_trail(log_audit_trail(log_audit_trail(auditLog,
                       "Session Started"), "User"), "API rate limit")
    /\ UNCHANGED <<scriptVars, calcVars, cfgVars, fileVars, testVars>>
    /\ UNCHANGED <<OFFLINE_MODE, now, apiVars, binsDone, uhaUnavailable,
                   encodeRequests, tokenFailedInRun, written, exitCode>>

\* step 1 as it would be if the except branch logged the error and went on
MainStep1_continues_after_failure ==
    /\ pc = "step1"
    /\ \E resp \in TokenResponses :
        LET r == get_api_key(TRUE, resp)
        IN  /\ ApplyCall(TRUE, r)
            /\ tokenFailedInRun' = (r.sent /\ r.raised # None)
            /\ auditLog' = log_audit_trail(auditLog,
                               IF r.raised # None
                               THEN "ERROR: Failed to get API key"
                               ELSE "API key acquired")
            /\ exitCode' = exitCode
            /\ pc' = "step2"
    /\ UNCHANGED <<scriptVars, calcVars, cfgVars, fileVars, testVars>>
    /\ UNCHANGED <<OFFLINE_MODE, now, binsDone, uhaUnavailable, encodeRequests,
                   written>>

\* main, lines 602-612: step 1, get_api_key(force_new=True)
MainStep1 ==
    /\ pc = "step1"
    /\ \E resp \in TokenResponses :
        LET r == get_api_key(TRUE, resp)
        IN  /\ ApplyCall(TRUE, r)
            /\ tokenFailedInRun' = (r.sent /\ r.raised # None)
            /\ IF r.raised # None
               THEN /\ auditLog' = log_audit_trail(auditLog,
                                       "ERROR: Failed to get API key")
                    /\ exitCode' = <<1>>
                    /\ pc' = "exited"
               ELSE /\ auditLog' = log_audit_trail(auditLog, "API key acquired")
                    /\ exitCode' = exitCode
                    /\ pc' = "step2"
    /\ UNCHANGED <<scriptVars, calcVars, cfgVars, fileVars, testVars>>
    /\ UNCHANGED <<OFFLINE_MODE, now, binsDone, uhaUnavailable, encodeRequests,
                   written>>

\* one bin as it would be analysed if the OFFLINE_MODE test were missing
AnalyzeBin_encodes_offline ==
    /\ pc = "step2"
    /\ binsDone < TotalBins
    /\ binsDone' = binsDone + 1
    /\ \E resp \in TokenResponses, enc \in EncodeResponses :
            LET r == get_api_key(FALSE, resp)
                posted == r.raised = None
                failed == r.raised # None \/ enc = "error"
            IN  /\ ApplyCall(FALSE, r)
                /\ tokenFailedInRun' =
                       (tokenFailedInRun \/ (r.sent /\ r.raised # None))
                /\ encodeRequests' = IF posted THEN encodeRequests + 1
                                     ELSE encodeRequests
                /\ uhaUnavailable' = IF failed THEN uhaUnavailable + 1
                                     ELSE uhaUnavailable
    /\ UNCHANGED <<scriptVars, calcVars, cfgVars, fileVars, testVars>>
    /\ UNCHANGED <<OFFLINE_MODE, now, pc, written, auditLog, exitCode>>

\* analyze_survey_h32_api, lines 331-381: one bin of one survey; with
\* OFFLINE_MODE off, encode_uha_api calls get_api_key() and posts to the
\* encode endpoint, and any exception leaves uha_code = "API_UNAVAILABLE"
AnalyzeBin ==
    /\ pc = "step2"
    /\ binsDone < TotalBins
    /\ binsDone' = binsDone + 1
    /\ IF OFFLINE_MODE
       THEN UNCHANGED <<apiVars, uhaUnavailable, encodeRequests,
                        tokenFailedInRun>>
       ELSE \E resp \in TokenResponses, enc \in EncodeResponses :
            LET r == get_api_key(FALSE, resp)
                posted == r.raised = None
                failed == r.raised # None \/ enc = "error"
            IN  /\ ApplyCall(FALSE, r)
                /\ tokenFailedInRun' =
                       (tokenFailedInRun \/ (r.sent /\ r.raised # None))
                /\ encodeRequests' = IF posted THEN encodeRequests + 1
                                     ELSE encodeRequests
                /\ uhaUnavailable' = IF failed THEN uhaUnavailable + 1
                                     ELSE uhaUnavailable
    /\ UNCHANGED <<scriptVars, calcVars, cfgVars, fileVars, testVars>>
    /\ UNCHANGED <<OFFLINE_MODE, now, pc, written, auditLog, exitCode>>

\* A JSON object is the sequence of its leaves in document order, each with
\* the path of keys that leads to it; Python keeps a dict in insertion order.
\* AlphabeticalKeys lists the keys in the order Python sorts strings.
AlphabeticalKeys ==
    <<"analysis_type", "api_endpoints", "consistency", "cross_validation",
      "des", "hsc", "kids", "surveys", "timestamp", "token", "uha_encode">>

KeyRank(key) == CHOOSE i \in 1..Len(AlphabeticalKeys) : AlphabeticalKeys[i] = key

\* a leaf at path p comes before a leaf at path q when every dict is written
\* with its keys sorted
RECURSIVE PathLess(_, _)
PathLess(p, q) ==
    IF p = <<>> THEN q # <<>>
    ELSE IF q = <<>> THEN FALSE
    ELSE IF p[1] = q[1] THEN PathLess(Tail(p), Tail(q))
    ELSE KeyRank(p[1]) < KeyRank(q[1])

\* the leaves with the keys of every dict sorted
RECURSIVE sort_keys(_)
sort_keys(leaves) ==
    IF leaves = <<>> THEN <<>>
    ELSE LET i == CHOOSE i \in 1..Len(leaves) :
                      \A j \in 1..Len(leaves) \ {i} :
                          PathLess(leaves[i].path, leaves[j].path)
         IN  <<leaves[i]>> \o sort_keys(SubSeq(leaves, 1, i - 1)
                                        \o SubSeq(leaves, i + 1, Len(leaves)))

\* json.dumps(obj, sort_keys=..., indent=...): the text
json_dumps(obj, sorted, indent) ==
    [indent |-> indent, leaves |-> IF sorted THEN sort_keys(obj) ELSE obj]

\* json.load of a file holding text: the dict, in the order of the text
json_load(text) == text.leaves

\* what a write that fails half way leaves in the file
truncated(text) == [indent |-> text.indent, leaves |-> SubSeq(text.leaves, 1, 1)]

\* hashlib.sha3_512(data.encode('utf-8')).hexdigest(): two texts have the
\* same digest only if they are the same text
sha3_512(data) == [algorithm |-> "sha3_512", of |-> data]

\* hashlib.sha256(data.encode('utf-8')).hexdigest()
sha256(data) == [algorithm |-> "sha256", of |-> data]

\* compare_three_surveys_api, lines 469-493: the results of a run, which
\* depend on the time the analysis ended and on the UHA samples of the bins
compare_three_surveys_api(time, offline, unavailable) ==
    LET uha == IF offline THEN "DEMO"
               ELSE ToString(unavailable) \o " API_UNAVAILABLE"
    IN  <<[path |-> <<"timestamp">>, value |-> ToString(time)],
          [path |-> <<"analysis_type">>,
           value |-> "three_survey_h32_api_validation"],
          [path |-> <<"api_endpoints", "token">>, value |-> "TOKEN_ENDPOINT"],
          [path |-> <<"api_endpoints", "uha_encode">>,
           value |-> "UHA_ENCODE_ENDPOINT"],
          [path |-> <<"surveys", "kids">>, value |-> uha],
          [path |-> <<"surveys", "des">>, value |-> uha],
          [path |-> <<"surveys", "hsc">>, value |-> uha],
          [path |-> <<"cross_validation", "consistency">>,
           value |-> "EXCELLENT"]>>

\* the proof as it would be if the canonical JSON were written without
\* sort_keys
generate_cryptographic_proof_unsorted_keys(res) ==
    LET canonical_json == json_dumps(res, FALSE, 2)
        sha3_hash == sha3_512(canonical_json)
        sha256_hash == sha256(canonical_json)
    IN  [proof_version |-> "2.0",
         hashes |-> [sha3_512 |-> sha3_hash, sha256 |-> sha256_hash],
         verification |-> [expected_hash |-> sha3_hash]]

\* generate_cryptographic_proof: the hashes of the canonical JSON of the
\* results
generate_cryptographic_proof(res) ==
    LET canonical_json == json_dumps(res, TRUE, 2)
        sha3_hash == sha3_512(canonical_json)
        sha256_hash == sha256(canonical_json)
    IN  [proof_version |-> "2.0",
         hashes |-> [sha3_512 |-> sha3_hash, sha256 |-> sha256_hash],
         verification |-> [expected_hash |-> sha3_hash]]

\* step 2 as it would be if its except branch logged the error and went on
SaveResults_continues_after_failure ==
    /\ pc = "step2"
    /\ binsDone = TotalBins
    /\ \E io \in IoOutcomes :
        LET log1 == log_audit_trail(auditLog, "Three-survey analysis complete")
            res == compare_three_surveys_api(now, OFFLINE_MODE, uhaUnavailable)
            text == json_dumps(res, FALSE, 2)
        IN  CASE io = "ok" ->
                    /\ written' = [written EXCEPT ![RESULTS_FILE] = "complete"]
                    /\ savedResults' = <<text>>
                    /\ results' = <<res>>
                    /\ auditLog' = log_audit_trail(log1, "Results saved")
                    /\ pc' = "step3"
                    /\ exitCode' = exitCode
              [] io = "open_fails" ->
                    /\ written' = written
                    /\ savedResults' = savedResults
                    /\ results' = <<res>>
                    /\ auditLog' = log_audit_trail(log1, "ERROR: Analysis failed")
                    /\ pc' = "step3"
                    /\ exitCode' = exitCode
              [] io = "write_fails" ->
                    /\ written' = [written EXCEPT ![RESULTS_FILE] = "partial"]
                    /\ savedResults' = <<truncated(text)>>
                    /\ results' = <<res>>
                    /\ auditLog' = log_audit_trail(log1, "ERROR: Analysis failed")
                    /\ pc' = "step3"
                    /\ exitCode' = exitCode
    /\ savedProof' = savedProof
    /\ UNCHANGED <<scriptVars, calcVars, cfgVars, testVars>>
    /\ UNCHANGED <<OFFLINE_MODE, now, apiVars, binsDone, uhaUnavailable,
                   encodeRequests, tokenFailedInRun>>

\* main, lines 621-634: the analysis is complete, the results are saved
SaveResults ==
    /\ pc = "step2"
    /\ binsDone = TotalBins
    /\ \E io \in IoOutcomes :
        LET log1 == log_audit_trail(auditLog, "Three-survey analysis complete")
            res == compare_three_surveys_api(now, OFFLINE_MODE, uhaUnavailable)
            text == json_dumps(res, FALSE, 2)
        IN  CASE io = "ok" ->
                    /\ written' = [written EXCEPT ![RESULTS_FILE] = "complete"]
                    /\ savedResults' = <<text>>
                    /\ results' = <<res>>
                    /\ auditLog' = log_audit_trail(log1, "Results saved")
                    /\ pc' = "step3"
                    /\ exitCode' = exitCode
              [] io = "open_fails" ->
                    /\ written' = written
                    /\ savedResults' = savedResults
                    /\ results' = <<res>>
                    /\ auditLog' = log_audit_trail(log1, "ERROR: Analysis failed")
                    /\ pc' = "exited"
                    /\ exitCode' = <<1>>
              [] io = "write_fails" ->
                    /\ written' = [written EXCEPT ![RESULTS_FILE] = "partial"]
                    /\ savedResults' = <<truncated(text)>>
                    /\ results' = <<res>>
                    /\ auditLog' = log_audit_trail(log1, "ERROR: Analysis failed")
                    /\ pc' = "exited"
                    /\ exitCode' = <<1>>
    /\ savedProof' = savedProof
    /\ UNCHANGED <<scriptVars, calcVars, cfgVars, testVars>>
    /\ UNCHANGED <<OFFLINE_MODE, now, apiVars, binsDone, uhaUnavailable,
                   encodeRequests, tokenFailedInRun>>

\* step 3 as it would be if a failed write of the proof were not noticed
SaveProof_ignores_write_failure ==
    /\ pc = "step3"
    /\ \E io \in IoOutcomes :
        LET proof == generate_cryptographic_proof(results[1])
        IN  /\ written' = [written EXCEPT ![PROOF_FILE] =
                               CASE io = "ok" -> "complete"
                                 [] io = "open_fails" -> "nothing"
                                 [] io = "write_fails" -> "partial"]
            /\ savedProof' = CASE io = "ok" -> <<proof>>
                               [] io = "open_fails" -> savedProof
                               [] io = "write_fails" ->
                                     <<[proof_version |-> proof.proof_version]>>
            /\ auditLog' = log_audit_trail(log_audit_trail(auditLog,
                               "Cryptographic proof generated"), "Proof saved")
            /\ pc' = "final"
            /\ exitCode' = exitCode
    /\ UNCHANGED <<results, savedResults>>
    /\ UNCHANGED <<scriptVars, calcVars, cfgVars, testVars>>
    /\ UNCHANGED <<OFFLINE_MODE, now, apiVars, binsDone, uhaUnavailable,
                   encodeRequests, tokenFailedInRun>>

\* main, lines 636-654: step 3, the proof is generated and saved
SaveProof ==
    /\ pc = "step3"
    /\ \E io \in IoOutcomes :
        LET proof == generate_cryptographic_proof(results[1])
        IN  CASE io = "ok" ->
                    /\ written' = [written EXCEPT ![PROOF_FILE] = "complete"]
                    /\ savedProof' = <<proof>>
                    /\ auditLog' = log_audit_trail(log_audit_trail(auditLog,
                                       "Cryptographic proof generated"),
                                       "Proof saved")
                    /\ pc' = "final"
                    /\ exitCode' = exitCode
              [] io = "open_fails" ->
                    /\ written' = written
                    /\ savedProof' = savedProof
                    /\ auditLog' = log_audit_trail(auditLog,
                                       "ERROR: Proof generation failed")
                    /\ pc' = "exited"
                    /\ exitCode' = <<1>>
              [] io = "write_fails" ->
                    /\ written' = [written EXCEPT ![PROOF_FILE] = "partial"]
                    /\ savedProof' = <<[proof_version |-> proof.proof_version]>>
                    /\ auditLog' = log_audit_trail(auditLog,
                                       "ERROR: Proof generation failed")
                    /\ pc' = "exited"
                    /\ exitCode' = <<1>>
    /\ UNCHANGED <<results, savedResults>>
    /\ UNCHANGED <<scriptVars, calcVars, cfgVars, testVars>>
    /\ UNCHANGED <<OFFLINE_MODE, now, apiVars, binsDone, uhaUnavailable,
                   encodeRequests, tokenFailedInRun>>

\* main, lines 656-672: the summary, the last two log entries, return 0
MainFinish ==
    /\ pc = "final"
    /\ auditLog' = log_audit_trail(log_audit_trail(auditLog,
                       "=== Session Complete ==="), "Final hash")
    /\ exitCode' = <<0>>
    /\ pc' = "returned"
    /\ UNCHANGED <<scriptVars, calcVars, cfgVars, fileVars, testVars>>
    /\ UNCHANGED <<OFFLINE_MODE, now, apiVars, binsDone, uhaUnavailable,
                   encodeRequests, tokenFailedInRun, written>>

Next ==
    \/ Tick
    \/ CallGetApiKey
    \/ MainStart
    \/ MainStep1
    \/ AnalyzeBin
    \/ SaveResults
    \/ SaveProof
    \/ MainFinish

Spec == Init /\ [][Next]_vars

(***************************************************************************)
(* SpecScripts: the scripts that read JSON files written by other scripts. *)
(* An input file is "missing", holds an empty JSON object ("empty") or     *)
(* holds the results the script expects ("results").                       *)
(***************************************************************************)
FileStates == {"missing", "empty", "results"}

KIDS_RESULTS == "kids1000_real_analysis_results.json"
DES_RESULTS == "des_y3_real_analysis_results.json"
HSC_RESULTS == "hsc_y3_real_analysis_results.json"
CROSS_SURVEY == "cross_survey_validation_results.json"
DES_PARSED == "des_y3_parsed.json"
HSC_PARSED == "hsc_y3_parsed.json"

Scripts == {"compare_three_surveys", "joint_lambda_cdm_fit",
            "des_y3_real_analysis", "hsc_y3_real_analysis"}

\* the input files a script requires, in the order it opens them
RequiredInputs(s) ==
    CASE s = "compare_three_surveys" -> <<KIDS_RESULTS, DES_RESULTS, HSC_RESULTS>>
      [] s = "joint_lambda_cdm_fit" -> <<CROSS_SURVEY>>
      [] s = "des_y3_real_analysis" -> <<DES_PARSED>>
      [] s = "hsc_y3_real_analysis" -> <<HSC_PARSED>>

InputSet(s) == {RequiredInputs(s)[i] : i \in 1..Len(RequiredInputs(s))}

\* compare_three_surveys.load_survey_results(filename): the loaded value
\* ("None" after the FileNotFoundError branch) and the message printed
load_survey_results(filename) ==
    IF inputs[filename] = "missing"
    THEN [value |-> "None", message |-> {filename}]
    ELSE [value |-> inputs[filename], message |-> {}]

\* Python truth value of what load_survey_results returned
Truthy(value) == value = "results"

ScriptsInit ==
    /\ ProofIdle
    /\ OFFLINE_MODE = TRUE
    /\ CalcIdle
    /\ ConfigIdle
    /\ TestsIdle
    /\ script \in Scripts
    /\ inputs \in [InputSet(script) -> FileStates]
    /\ spc = "start"
    /\ loaded = <<>>
    /\ reported = {}
    /\ termination = "running"
    /\ outputWritten = FALSE

\* compare_three_surveys, lines 54-56: the next of the three loads
CompareLoad ==
    /\ script = "compare_three_surveys"
    /\ spc = "start"
    /\ Len(loaded) < Len(RequiredInputs(script))
    /\ LET r == load_survey_results(RequiredInputs(script)[Len(loaded) + 1])
       IN  /\ loaded' = Append(loaded, r.value)
           /\ reported' = reported \cup r.message
    /\ UNCHANGED <<script, inputs, spc, termination, outputWritten>>
    /\ UNCHANGED <<proofVars, calcVars, cfgVars, testVars>>

\* compare_three_surveys, lines 58-64: all three results must be there
CompareCheck ==
    /\ script = "compare_three_surveys"
    /\ spc = "start"
    /\ Len(loaded) = Len(RequiredInputs(script))
    /\ IF \A i \in 1..Len(loaded) : Truthy(loaded[i])
       THEN /\ spc' = "analyse"
            /\ termination' = termination
       ELSE /\ spc' = "done"
            /\ termination' = "sys.exit(1)"
    /\ UNCHANGED <<script, inputs, loaded, reported, outputWritten>>
    /\ UNCHANGED <<proofVars, calcVars, cfgVars, testVars>>

\* joint_lambda_cdm_fit, lines 13-59: the module-level open and the PROBES
\* table built from cross_survey['combined']; nothing catches an exception
JointImport ==
    /\ script = "joint_lambda_cdm_fit"
    /\ spc = "start"
    /\ CASE inputs[CROSS_SURVEY] = "missing" ->
                /\ spc' = "done"
                /\ termination' = "uncaught FileNotFoundError"
                /\ loaded' = loaded
         [] inputs[CROSS_SURVEY] = "empty" ->
                /\ spc' = "done"
                /\ termination' = "uncaught KeyError"
                /\ loaded' = Append(loaded, "empty")
         [] inputs[CROSS_SURVEY] = "results" ->
                /\ spc' = "analyse"
                /\ termination' = termination
                /\ loaded' = Append(loaded, "results")
    /\ UNCHANGED <<script, inputs, reported, outputWritten>>
    /\ UNCHANGED <<proofVars, calcVars, cfgVars, testVars>>

\* the parsed-data file of a survey analysis script
ParsedFile(s) == RequiredInputs(s)[1]

\* des_y3_real_analysis lines 445-452, hsc_y3_real_analysis lines 434-441:
\* the existence check of __main__
SurveyCheckParsed ==
    /\ script \in {"des_y3_real_analysis", "hsc_y3_real_analysis"}
    /\ spc = "start"
    /\ IF inputs[ParsedFile(script)] = "missing"
       THEN /\ reported' = reported \cup {ParsedFile(script)}
            /\ termination' = "sys.exit(1)"
            /\ spc' = "done"
       ELSE /\ reported' = reported
            /\ termination' = termination
            /\ spc' = "load"
    /\ UNCHANGED <<script, inputs, loaded, outputWritten>>
    /\ UNCHANGED <<proofVars, calcVars, cfgVars, testVars>>

\* des_y3_real_analysis.load_des_parsed_data lines 38-69 and
\* hsc_y3_real_analysis lines 86-92: a second existence check, then
\* json.load and data['bins']
SurveyLoadParsed ==
    /\ script \in {"des_y3_real_analysis", "hsc_y3_real_analysis"}
    /\ spc = "load"
    /\ CASE inputs[ParsedFile(script)] = "missing" ->
                /\ reported' = reported \cup {ParsedFile(script)}
                /\ termination' = "sys.exit(1)"
                /\ spc' = "done"
                /\ loaded' = loaded
         [] inputs[ParsedFile(script)] = "empty" ->
                /\ reported' = reported
                /\ termination' = "uncaught KeyError"
                /\ spc' = "done"
                /\ loaded' = Append(loaded, "empty")
         [] inputs[ParsedFile(script)] = "results" ->
                /\ reported' = reported
                /\ termination' = termination
                /\ spc' = "analyse"
                /\ loaded' = Append(loaded, "results")
    /\ UNCHANGED <<script, inputs, outputWritten>>
    /\ UNCHANGED <<proofVars, calcVars, cfgVars, testVars>>

\* the analysis and the json.dump of the output file that ends every script
ScriptSave ==
    /\ script \in Scripts
    /\ spc = "analyse"
    /\ outputWritten' = TRUE
    /\ termination' = "completed"
    /\ spc' = "done"
    /\ UNCHANGED <<script, inputs, loaded, reported>>
    /\ UNCHANGED <<proofVars, calcVars, cfgVars, testVars>>

ScriptsNext ==
    \/ CompareLoad
    \/ CompareCheck
    \/ JointImport
    \/ SurveyCheckParsed
    \/ SurveyLoadParsed
    \/ ScriptSave

SpecScripts == ScriptsInit /\ [][ScriptsNext]_vars

(***************************************************************************)
(* SpecCalc: calls of the numerical functions.  Each action is one call    *)
(* with arguments drawn from a small set; op, args and result record it.   *)
(*                                                                         *)
(* Numbers are exact: a baseline is an integer number of thousandths, a    *)
(* density parameter an integer number of two-hundredths (0.005), a        *)
(* redshift an integer number of tenths, and a quotient or a square root   *)
(* is kept as a fraction [num, den] (of the square, for a root).  An       *)
(* Optional argument is a sequence of length 0 (None) or 1.                *)
(***************************************************************************)
\* bounds of the argument lists
MaxSurveys == 3
MaxMeasurements == 3

\* thresholds of the classifications, in thousandths
UTILS_EXCELLENT == 3
UTILS_GOOD == 5
COMPARE_THRESHOLD_EXCELLENT == 3
COMPARE_THRESHOLD_GOOD == 5
API_EXCELLENT == 1
API_GOOD == 5
\* 0.01, 1.0 and the ends of (0, 1) in two-hundredths; 40 and 100 km/s/Mpc
FLAT_TOLERANCE == 2
OMEGA_ONE == 200
H0_MIN == 40
H0_MAX == 100

BaselineValues == {14, 17, 20, 23, 26}
OmegaMValues == {0, 60, 63, 200, 240}
OmegaLambdaValues == {-40, 100, 137, 138, 139, 140, 141, 142, 143}
H0Values == {0, 30, 70}
ZValues == {-10, 5, 10}
TensionValues == {776, 834}
SigmaValues == {-17, 0, 16, 17}
MeasuredValues == {67, 68}
MeasuredSigmas == {-1, 0, 1, 2}

\* sequences over S of length lo..hi
SeqsOf(S, lo, hi) == UNION {[1..n -> S] : n \in lo..hi}

RECURSIVE SumSeq(_)
SumSeq(xs) == IF xs = <<>> THEN 0 ELSE xs[1] + SumSeq(Tail(xs))

RECURSIVE ProdSeq(_)
ProdSeq(xs) == IF xs = <<>> THEN 1 ELSE xs[1] * ProdSeq(Tail(xs))

Abs(x) == IF x < 0 THEN -x ELSE x

\* np.std(xs) for a non-empty xs, as the fraction that is its square:
\* sum((n x_i - sum(xs))^2) / n^3
np_std(xs) ==
    LET n == Len(xs)
        total == SumSeq(xs)
    IN  [num |-> SumSeq([i \in 1..n |-> (n * xs[i] - total) * (n * xs[i] - total)]),
         den |-> n * n * n]

\* std < threshold, for a std given by its square
StdBelow(std, threshold) == std.num < threshold * threshold * std.den

\* utils.corrections.check_cross_survey_consistency; survey_results is the
\* sequence of the surveys' results, each given by its optional 'baseline'
check_cross_survey_consistency(survey_results) ==
    IF \E i \in 1..Len(survey_results) : survey_results[i] = <<>>
    THEN [raised |-> "ValueError"]
    ELSE LET baseline_values == [i \in 1..Len(survey_results) |->
                                     survey_results[i][1]]
             std_baseline == np_std(baseline_values)
             is_excellent == StdBelow(std_baseline, UTILS_EXCELLENT)
             is_good == StdBelow(std_baseline, UTILS_GOOD)
         IN  [raised |-> None,
              std_baseline |-> std_baseline,
              consistent |-> (is_excellent \/ is_good),
              status |-> IF is_excellent THEN "EXCELLENT"
                         ELSE IF is_good THEN "GOOD" ELSE "MARGINAL"]

\* compare_three_surveys.py lines 119-145: the status of the three baselines
compare_three_surveys_status(all_baselines) ==
    LET std_baseline == np_std(all_baselines)
    IN  [raised |-> None,
         std_baseline |-> std_baseline,
         status |-> IF StdBelow(std_baseline, COMPARE_THRESHOLD_EXCELLENT)
                    THEN "EXCELLENT"
                    ELSE IF StdBelow(std_baseline, COMPARE_THRESHOLD_GOOD)
                    THEN "GOOD" ELSE "MARGINAL"]

\* api_cryptographic_proof_system.compare_three_surveys_api lines 445-451:
\* the consistency status of the three baselines
compare_three_surveys_api_status(all_baselines) ==
    LET std_baseline == np_std(all_baselines)
    IN  [raised |-> None,
         std_baseline |-> std_baseline,
         status |-> IF StdBelow(std_baseline, API_EXCELLENT) THEN "EXCELLENT"
                    ELSE IF StdBelow(std_baseline, API_GOOD) THEN "GOOD"
                    ELSE "MARGINAL"]

\* abs(omega_m + omega_lambda - 1.0) > 0.01 as the flatness check drops the
\* sign, a slip that lets sums below 0.99 through
FlatnessExceeded_no_abs(omega_m, omega_lambda, fp_above) ==
    LET off == omega_m + omega_lambda - OMEGA_ONE
    IN  IF off = FLAT_TOLERANCE THEN fp_above ELSE off > FLAT_TOLERANCE

\* abs(omega_m + omega_lambda - 1.0) > 0.01 in floating point.  When the
\* decimal values are exactly 0.01 away from 1 the rounding of the operands
\* decides (0.3 + 0.71 - 1.0 is 0.010000000000000009, while 0.937 + 0.053 - 1.0
\* is not above 0.01): fp_above is that outcome.
FlatnessExceeded(omega_m, omega_lambda, fp_above) ==
    LET off == Abs(omega_m + omega_lambda - OMEGA_ONE)
    IN  IF off = FLAT_TOLERANCE THEN fp_above ELSE off > FLAT_TOLERANCE

\* utils.cosmology.calculate_angular_diameter_distance; the distance is the
\* fraction num/den times the speed of light (km/s), in Mpc
calculate_angular_diameter_distance(z, h0, omega_m, omega_lambda, fp_above) ==
    LET ol == IF omega_lambda = <<>> THEN OMEGA_ONE - omega_m
              ELSE omega_lambda[1]
    IN  IF FlatnessExceeded(omega_m, ol, fp_above)
        THEN [raised |-> "ValueError", reason |-> "non-flat"]
        ELSE IF h0 = 0 \/ 10 + z = 0
        THEN [raised |-> "ZeroDivisionError", reason |-> "division"]
        ELSE [raised |-> None, reason |-> None,
              value |-> [num |-> z * (2 * OMEGA_ONE * 10 + omega_m * z),
                         den |-> h0 * (10 + z) * (2 * OMEGA_ONE * 10)]]

\* utils.cosmology.calculate_comoving_distance: D_A (1 + z)
calculate_comoving_distance(z, h0, omega_m, omega_lambda, fp_above) ==
    LET d_a == calculate_angular_diameter_distance(z, h0, omega_m,
                                                   omega_lambda, fp_above)
    IN  IF d_a.raised # None THEN d_a
        ELSE [d_a EXCEPT !.value = [num |-> d_a.value.num * (10 + z),
                                    den |-> d_a.value.den * 10]]

\* utils.cosmology.calculate_luminosity_distance: D_A (1 + z)^2
calculate_luminosity_distance(z, h0, omega_m, omega_lambda, fp_above) ==
    LET d_a == calculate_angular_diameter_distance(z, h0, omega_m,
                                                   omega_lambda, fp_above)
    IN  IF d_a.raised # None THEN d_a
        ELSE [d_a EXCEPT !.value = [num |-> d_a.value.num * (10 + z) * (10 + z),
                                    den |-> d_a.value.den * 100]]

DistanceFunctions == {"calculate_angular_diameter_distance",
                      "calculate_comoving_distance",
                      "calculate_luminosity_distance"}

Distance(fn, z, h0, omega_m, omega_lambda, fp_above) ==
    CASE fn = "calculate_angular_diameter_distance" ->
            calculate_angular_diameter_distance(z, h0, omega_m, omega_lambda, fp_above)
      [] fn = "calculate_comoving_distance" ->
            calculate_comoving_distance(z, h0, omega_m, omega_lambda, fp_above)
      [] fn = "calculate_luminosity_distance" ->
            calculate_luminosity_distance(z, h0, omega_m, omega_lambda, fp_above)

\* the keys a cosmology dictionary must have
required_keys == {"h0", "omega_m", "omega_lambda"}

\* utils.cosmology.validate_cosmology_parameters(cosmo, flat_only)
validate_cosmology_parameters(cosmo, flat_only, fp_above) ==
    IF ~(required_keys \subseteq DOMAIN cosmo)
    THEN [raised |-> "ValueError", reason |-> "missing"]
    ELSE IF ~(H0_MIN < cosmo.h0 /\ cosmo.h0 < H0_MAX)
    THEN [raised |-> "ValueError", reason |-> "h0"]
    ELSE IF ~(0 < cosmo.omega_m /\ cosmo.omega_m < OMEGA_ONE)
    THEN [raised |-> "ValueError", reason |-> "omega_m"]
    ELSE IF ~(0 < cosmo.omega_lambda /\ cosmo.omega_lambda < OMEGA_ONE)
    THEN [raised |-> "ValueError", reason |-> "omega_lambda"]
    ELSE IF flat_only /\ FlatnessExceeded(cosmo.omega_m, cosmo.omega_lambda, fp_above)
    THEN [raised |-> "ValueError", reason |-> "non-flat"]
    ELSE [raised |-> None, reason |-> None]

\* utils.validation.validate_hubble_constant
validate_hubble_constant(h0) == H0_MIN < h0 /\ h0 < H0_MAX

\* utils.validation.validate_omega_parameter
validate_omega_parameter(omega) == 0 < omega /\ omega < OMEGA_ONE

\* utils.validation.validate_cosmology_dict(cosmo, require_flat)
validate_cosmology_dict(cosmo, require_flat, fp_above) ==
    IF ~(required_keys \subseteq DOMAIN cosmo)
    THEN [raised |-> "ParameterValidationError", reason |-> "missing"]
    ELSE IF ~validate_hubble_constant(cosmo.h0)
    THEN [raised |-> "ParameterValidationError", reason |-> "h0"]
    ELSE IF ~validate_omega_parameter(cosmo.omega_m)
    THEN [raised |-> "ParameterValidationError", reason |-> "omega_m"]
    ELSE IF ~validate_omega_parameter(cosmo.omega_lambda)
    THEN [raised |-> "ParameterValidationError", reason |-> "omega_lambda"]
    ELSE IF require_flat /\ FlatnessExceeded(cosmo.omega_m, cosmo.omega_lambda, fp_above)
    THEN [raised |-> "ParameterValidationError", reason |-> "non-flat"]
    ELSE [raised |-> None, reason |-> None]

Validators == {"validate_cosmology_parameters", "validate_cosmology_dict"}

Validate(fn, cosmo, flat, fp_above) ==
    IF fn = "validate_cosmology_parameters"
    THEN validate_cosmology_parameters(cosmo, flat, fp_above)
    ELSE validate_cosmology_dict(cosmo, flat, fp_above)

\* the cosmology dictionaries that are tried
CosmoDicts ==
    [h0 : H0Values \ {0}, omega_m : OmegaMValues, omega_lambda : OmegaLambdaValues]
        \cup [h0 : {70}, omega_m : OmegaMValues]

\* utils.corrections.calculate_tension_sigma: diff / np.sqrt(s1^2 + s2^2),
\* kept as the fraction that is its square; a zero denominator gives the
\* numpy quotient inf or nan, not an exception
calculate_tension_sigma(value1, sigma1, value2, sigma2) ==
    LET diff == Abs(value1 - value2)
        combined_sq == sigma1 * sigma1 + sigma2 * sigma2
    IN  [raised |-> None,
         kind |-> IF combined_sq # 0 THEN "finite"
                  ELSE IF diff = 0 THEN "nan" ELSE "inf",
         negative |-> diff < 0,
         sq |-> [num |-> diff * diff, den |-> combined_sq]]

\* trgb_real_data_analysis.run_trgb_multiresolution_analysis lines 215-218:
\* the initial tension delta_H0_initial / sigma_combined of two chains with
\* the given means and standard deviations
trgb_tension_initial(mean_trgb, std_trgb, mean_planck, std_planck) ==
    LET delta_H0_initial == mean_trgb - mean_planck
        combined_sq == std_trgb * std_trgb + std_planck * std_planck
    IN  [raised |-> None,
         kind |-> IF combined_sq # 0 THEN "finite"
                  ELSE IF delta_H0_initial = 0 THEN "nan" ELSE "inf",
         negative |-> delta_H0_initial < 0,
         sq |-> [num |-> delta_H0_initial * delta_H0_initial, den |-> combined_sq]]

TensionFunctions == {"calculate_tension_sigma", "trgb_tension_initial"}

\* the combination with the weights 1 / |sigma| instead of 1 / sigma^2, a slip
\* that changes the combined uncertainty
weighted_mean_linear_weights(values, sigmas) ==
    IF Len(sigmas) = 0 \/ \E i \in 1..Len(sigmas) : sigmas[i] = 0
    THEN [raised |-> "ZeroDivisionError"]
    ELSE LET P == ProdSeq([i \in 1..Len(sigmas) |-> Abs(sigmas[i])])
             W == [i \in 1..Len(sigmas) |-> P \div Abs(sigmas[i])]
             total_weight == SumSeq(W)
         IN  [raised |-> None,
              mean |-> [num |-> SumSeq([i \in 1..Len(values) |-> values[i] * W[i]]),
                        den |-> total_weight],
              sigma_sq |-> [num |-> P, den |-> total_weight],
              P |-> P, W |-> W]

\* joint_lambda_cdm_fit.weighted_mean: with P the product of the sigma^2 and
\* W_i = P / sigma_i^2, the mean is sum(v_i W_i) / sum(W_i) and the square of
\* the combined sigma is P / sum(W_i)
weighted_mean(values, sigmas) ==
    IF \E i \in 1..Len(sigmas) : sigmas[i] = 0
    THEN [raised |-> "ZeroDivisionError"]
    ELSE IF Len(sigmas) = 0
    THEN [raised |-> "ZeroDivisionError"]
    ELSE LET P == ProdSeq([i \in 1..Len(sigmas) |-> sigmas[i] * sigmas[i]])
             W == [i \in 1..Len(sigmas) |-> P \div (sigmas[i] * sigmas[i])]
             total_weight == SumSeq(W)
         IN  [raised |-> None,
              mean |-> [num |-> SumSeq([i \in 1..Len(values) |-> values[i] * W[i]]),
                        den |-> total_weight],
              sigma_sq |-> [num |-> P, den |-> total_weight],
              P |-> P, W |-> W]

\* joint_lambda_cdm_fit.joint_fit_lambda_cdm lines 119-132 (and 154-167,
\* 186-199): the combination of one parameter and its chi-squared summary
joint_fit_parameter(values, sigmas) ==
    LET wm == weighted_mean(values, sigmas)
    IN  IF wm.raised # None THEN [raised |-> wm.raised]
        ELSE LET N == wm.mean.num
                 D == wm.mean.den
                 chi2 == [num |-> SumSeq([i \in 1..Len(values) |->
                                     (values[i] * D - N) * (values[i] * D - N)
                                       * wm.W[i]]),
                          den |-> D * D * wm.P]
                 dof == Len(values) - 1
             IN  IF dof = 0 THEN [raised |-> "ZeroDivisionError"]
                 ELSE [raised |-> None, mean |-> wm.mean,
                       sigma_sq |-> wm.sigma_sq, chi2 |-> chi2, dof |-> dof,
                       consistent |-> chi2.num < 2 * dof * chi2.den]

(***************************************************************************)
(* The correction model baseline x (1+z)^(-0.5) and its fit.               *)
(*                                                                         *)
(* A redshift is [val, above]: the number val, or, when above is true, the *)
(* next floating-point number above val.  The values are chosen so that    *)
(* 1 + val is a square k^2 and (1+z)^(-0.5) is the fraction 1/k.  A        *)
(* baseline or correction is a fraction of thousandths.                    *)
(***************************************************************************)
MaxBins == 2

RedshiftVals == {-2, -1, 0, 3, 8}
Redshifts == {z \in [val : RedshiftVals, above : BOOLEAN] : z.above => z.val >= 0}
CorrectionBaselines == {-20, 0, 14, 20}

\* 1.0 + z in floating point: the sum of 1.0 and the float just above
\* val >= 0 rounds to 1 + val
OnePlusZ(z) == 1 + z.val

\* the square root of a square n
RootOf(n) == CHOOSE k \in 0..n : k * k = n

\* the scaling factor with the exponent -1 instead of -0.5, a slip that
\* breaks the fit of corrections generated with (1+z)^(-0.5)
calculate_redshift_scaling_factor_exponent_minus_one(z, numpy) ==
    LET base == OnePlusZ(z)
    IN  IF base = 0
        THEN IF numpy THEN [raised |-> None, kind |-> "inf"]
             ELSE [raised |-> "ZeroDivisionError", kind |-> None]
        ELSE IF base < 0
        THEN [raised |-> None, kind |-> IF numpy THEN "nan" ELSE "complex"]
        ELSE [raised |-> None, kind |-> "finite",
              value |-> [num |-> 1, den |-> base]]

\* config.corrections.calculate_redshift_scaling_factor, (1.0 + z) ** -0.5.
\* For a Python float, a zero base raises ZeroDivisionError and a negative
\* base gives a complex number; for a numpy array they give inf and nan.
calculate_redshift_scaling_factor(z, numpy) ==
    LET base == OnePlusZ(z)
    IN  IF base = 0
        THEN IF numpy THEN [raised |-> None, kind |-> "inf"]
             ELSE [raised |-> "ZeroDivisionError", kind |-> None]
        ELSE IF base < 0
        THEN [raised |-> None, kind |-> IF numpy THEN "nan" ELSE "complex"]
        ELSE [raised |-> None, kind |-> "finite",
              value |-> [num |-> 1, den |-> RootOf(base)]]

\* the correction with the exponent +0.5 instead of -0.5, a slip that makes
\* the correction grow with redshift
calculate_redshift_dependent_correction_exponent_plus(z_eff, baseline) ==
    LET base == OnePlusZ(z_eff)
    IN  IF base < 0 THEN [raised |-> None, kind |-> "complex"]
        ELSE [raised |-> None, kind |-> "finite",
              value |-> [num |-> baseline * RootOf(base), den |-> 1]]

\* utils.corrections.calculate_redshift_dependent_correction(z_eff, baseline)
\* with the default exponent: baseline * (1.0 + z_eff) ** -0.5
calculate_redshift_dependent_correction(z_eff, baseline) ==
    LET base == OnePlusZ(z_eff)
    IN  IF base = 0 THEN [raised |-> "ZeroDivisionError", kind |-> None]
        ELSE IF base < 0 THEN [raised |-> None, kind |-> "complex"]
        ELSE [raised |-> None, kind |-> "finite",
              value |-> [num |-> baseline * 1, den |-> RootOf(base)]]

\* config.corrections.calculate_s8_correction(z, baseline):
\* baseline * calculate_redshift_scaling_factor(z)
calculate_s8_correction(z, baseline) ==
    LET z_factor == calculate_redshift_scaling_factor(z, FALSE)
    IN  IF z_factor.kind # "finite" THEN z_factor
        ELSE [z_factor EXCEPT !.value = [num |-> baseline * z_factor.value.num,
                                         den |-> z_factor.value.den]]

CorrectionFunctions == {"calculate_redshift_dependent_correction",
                        "calculate_s8_correction"}

Correction(fn, z, baseline) ==
    IF fn = "calculate_redshift_dependent_correction"
    THEN calculate_redshift_dependent_correction(z, baseline)
    ELSE calculate_s8_correction(z, baseline)

\* the bins a fit is tried on: a redshift, an observed correction, and the
\* floating-point rounding error (in units in the last place) of the quotient
\* correction / z_factor, which is exact when the z factor is 1.0 or 0.5
FitRedshifts == {z \in Redshifts : z.val >= -1 /\ ~z.above}
FitCorrections == [num : {14, 20}, den : {1, 2, 3}]
FitBins == {b \in [z : FitRedshifts, correction : FitCorrections, fp_ulps : {-1, 0, 1}] :
               b.z.val # 8 => b.fp_ulps = 0}

\* utils.corrections.fit_baseline_from_bins on numpy arrays.  A value is
\* the exact fraction plus a number of units in the last place, carried
\* separately (the _ulps fields); std and rms are given by their squares.
fit_baseline_from_bins(z_effective_values, corrections, fp_ulps) ==
    LET n == Len(z_effective_values)
        z_factors == [i \in 1..n |->
                         calculate_redshift_scaling_factor(z_effective_values[i], TRUE)]
    IN  IF n = 0 \/ \E i \in 1..n : z_factors[i].kind = "nan"
        THEN [raised |-> None, kind |-> "nan"]
        ELSE
        LET \* 1 / z_factor; a correction divided by inf is 0
            k == [i \in 1..n |-> IF z_factors[i].kind = "inf" THEN 0
                                 ELSE z_factors[i].value.den]
            D == ProdSeq([i \in 1..n |-> corrections[i].den])
            \* baselines = corrections / z_factors, over the denominator D
            Q == [i \in 1..n |-> corrections[i].num * k[i] * (D \div corrections[i].den)]
            e == [i \in 1..n |-> IF k[i] \in {0, 1, 2} THEN 0 ELSE fp_ulps[i]]
            S == SumSeq(Q)
            Se == SumSeq(e)
            finite == \A i \in 1..n : z_factors[i].kind = "finite"
            K == ProdSeq([i \in 1..n |-> IF finite THEN k[i] * k[i] ELSE 1])
            \* residuals = corrections - baseline_mean * z_factors
            sq_residuals == [i \in 1..n |->
                (n * Q[i] - S) * (n * Q[i] - S) * (K \div (IF finite THEN k[i] * k[i] ELSE 1))]
            sq_residuals_ulps == [i \in 1..n |->
                (n * e[i] - Se) * (n * e[i] - Se) * (K \div (IF finite THEN k[i] * k[i] ELSE 1))]
        IN  [raised |-> None, kind |-> "finite",
             baseline |-> [num |-> S, den |-> n * D],
             baseline_ulps |-> [num |-> Se, den |-> n],
             baseline_std |-> [num |-> np_std(Q).num, den |-> n * n * n * D * D],
             baseline_std_ulps |-> np_std(e),
             rms_kind |-> IF finite THEN "finite" ELSE IF S = 0 THEN "nan" ELSE "inf",
             rms_residual |-> [num |-> SumSeq(sq_residuals), den |-> n * n * n * D * D * K],
             rms_residual_ulps |-> [num |-> SumSeq(sq_residuals_ulps), den |-> n * n * n * K],
             n_bins |-> n]

\* config.corrections.fit_correction_pattern: the same statistics
fit_correction_pattern(z_values, corrections, fp_ulps) ==
    fit_baseline_from_bins(z_values, corrections, fp_ulps)

FitFunctions == {"fit_baseline_from_bins", "fit_correction_pattern"}

Fit(fn, z_values, corrections, fp_ulps) ==
    IF fn = "fit_baseline_from_bins"
    THEN fit_baseline_from_bins(z_values, corrections, fp_ulps)
    ELSE fit_correction_pattern(z_values, corrections, fp_ulps)

DistanceArgs ==
    [z : ZValues, h0 : H0Values \ {30}, omega_m : OmegaMValues,
     omega_lambda : {<<>>} \cup {<<x>> : x \in OmegaLambdaValues},
     fp_above : BOOLEAN]

MeasurementArgs(lo) ==
    UNION {[values : [1..n -> MeasuredValues], sigmas : [1..n -> MeasuredSigmas]] :
           n \in lo..MaxMeasurements}

\* the arguments of weighted_mean, with the floating-point rounding errors
\* (in units in the last place) of the returned mean and sigma
WeightedMeanArgs ==
    {a @@ [mean_ulps |-> e1, sigma_ulps |-> e2] :
        a \in MeasurementArgs(0), e1 \in {-1, 0, 1}, e2 \in {-1, 0, 1}}

\* multiresolution_tensor_calibration: delta_t, the epistemic distance that
\* the core returns at a level, is in hundredths ("nan" when it is not a
\* number); gap, the distance of the two chains' mean H0, is in hundredths
\* of km/s/Mpc and is the same at every level
MaxLevels == 3
ResolutionBits == {8, 16}
DeltaTs == [kind : {"num"}, val : {10, 15, 20}] \cup {[kind |-> "nan", val |-> 0]}
DefaultDeltaTs == [kind : {"num"}, val : {10, 20}]
Gaps == {0, 29, 30, 700}
DEFAULT_RESOLUTION_SCHEDULE == <<8, 12, 16, 20, 24, 28, 32>>

\* concordance = max(0, (1 - gap / 6.0) * 100), as a fraction
concordance_pct(gap) ==
    IF (600 - gap) * 100 > 0
    THEN [num |-> (600 - gap) * 100, den |-> 600]
    ELSE [num |-> 0, den |-> 1]

\* merged_unc = delta_t * abs(h0_planck - h0_shoes) / 2.0
merged_uncertainty(delta_t, gap) ==
    [kind |-> delta_t.kind, num |-> delta_t.val * gap, den |-> 20000]

\* the convergence test as it would be with "or" in place of "and"
converges_or(delta_t, concordance) ==
    \/ delta_t.kind = "num" /\ delta_t.val < 15
    \/ concordance.num > 95 * concordance.den

\* the convergence test: delta_t < 0.15 and concordance > 95.0; a comparison
\* with nan is false
converges(delta_t, concordance) ==
    /\ delta_t.kind = "num" /\ delta_t.val < 15
    /\ concordance.num > 95 * concordance.den

\* the loop from the i-th level on: the entries appended to results and the
\* value of converged when the loop is left
RECURSIVE calibration_loop(_, _, _, _)
calibration_loop(resolution_schedule, delta_ts, gap, i) ==
    IF i > Len(resolution_schedule)
    THEN [converged |-> FALSE, results |-> <<>>]
    ELSE LET delta_t == delta_ts[i]
             concordance == concordance_pct(gap)
             entry == [resolution_bits |-> resolution_schedule[i],
                       delta_t |-> delta_t,
                       gap_km_s_mpc |-> gap,
                       concordance_pct |-> concordance,
                       merged_uncertainty |-> merged_uncertainty(delta_t, gap)]
         IN  IF converges(delta_t, concordance)
             THEN [converged |-> TRUE, results |-> <<entry>>]
             ELSE LET rest == calibration_loop(resolution_schedule, delta_ts,
                                               gap, i + 1)
                  IN  [converged |-> rest.converged,
                       results |-> <<entry>> \o rest.results]

\* the schedule the loop runs over: the default when the argument is None
effective_schedule(resolution_schedule) ==
    IF resolution_schedule = <<>> THEN DEFAULT_RESOLUTION_SCHEDULE
    ELSE resolution_schedule[1]

\* multiresolution_tensor_calibration: resolution_schedule is <<>> for None
\* and <<schedule>> otherwise; final is <<>> for None
multiresolution_tensor_calibration(resolution_schedule, delta_ts, gap) ==
    LET out == calibration_loop(effective_schedule(resolution_schedule),
                                delta_ts, gap, 1)
    IN  [raised |-> None,
         converged |-> out.converged,
         results |-> out.results,
         final |-> IF out.results = <<>> THEN <<>>
                   ELSE <<out.results[Len(out.results)]>>]

\* perform_multiresolution_merge: the response built from the calibration of a
\* request the request model accepted; final is None when no level was run,
\* and subscripting it raises TypeError
perform_multiresolution_merge(resolution_schedule, delta_ts, gap) ==
    LET out == multiresolution_tensor_calibration(resolution_schedule,
                                                  delta_ts, gap)
    IN  IF out.final = <<>>
        THEN [raised |-> "TypeError"]
        ELSE LET final == out.final[1]
             IN  [raised |-> None,
                  success |-> TRUE,
                  convergence_achieved |-> out.converged,
                  final_resolution_bits |-> final.resolution_bits,
                  final_delta_t |-> final.delta_t,
                  final_gap_km_s_mpc |-> final.gap_km_s_mpc,
                  final_concordance_pct |-> final.concordance_pct,
                  results_by_resolution |-> out.results,
                  merged_uncertainty |-> final.merged_uncertainty]

CalibrationArgs ==
    UNION {[resolution_schedule : {<<sched>>},
            delta_t : SeqsOf(DeltaTs, Len(sched), Len(sched)),
            gap : Gaps] : sched \in SeqsOf(ResolutionBits, 0, MaxLevels)}
    \cup [resolution_schedule : {<<>>},
          delta_t : [1..Len(DEFAULT_RESOLUTION_SCHEDULE) -> DefaultDeltaTs],
          gap : Gaps]

\* apply_resolution_schedule: values are in thousandths; a float value is
\* [val, ulps], the exact sum and the rounding the additions that produced
\* it have accumulated.  fp_ulps[i] is the rounding of the addition at the
\* i-th level; adding 0.0, or adding to 0.0, is exact.
ScheduleInitialValues == {0, 800}
ScheduleCorrections == {-14, 0, 10}
CorrectionMaps == UNION {[D -> ScheduleCorrections] : D \in SUBSET ResolutionBits}

\* current_value + correction in floating point
float_add(current_value, correction, rounding) ==
    [val |-> current_value.val + correction,
     ulps |-> IF correction = 0 \/ current_value = [val |-> 0, ulps |-> 0]
              THEN current_value.ulps
              ELSE current_value.ulps + rounding]

\* the correction of a level: the entry of the map, 0.0 when there is none
level_correction(res_bits, correction_per_resolution) ==
    IF res_bits \in DOMAIN correction_per_resolution
    THEN correction_per_resolution[res_bits]
    ELSE 0

\* the loop as it would be if a level missing from the map were skipped
RECURSIVE schedule_loop_skips_missing(_, _, _, _, _)
schedule_loop_skips_missing(resolution_schedule, correction_per_resolution, fp_ulps, i, acc) ==
    IF i > Len(resolution_schedule) THEN acc
    ELSE IF resolution_schedule[i] \notin DOMAIN correction_per_resolution
    THEN schedule_loop_skips_missing(resolution_schedule,
                                     correction_per_resolution, fp_ulps,
                                     i + 1, acc)
    ELSE LET correction == correction_per_resolution[resolution_schedule[i]]
             current_value == float_add(acc.current_value, correction,
                                        fp_ulps[i])
         IN  schedule_loop_skips_missing(
                 resolution_schedule, correction_per_resolution, fp_ulps, i + 1,
                 [current_value |-> current_value,
                  values |-> Append(acc.values, current_value),
                  corrections |-> Append(acc.corrections, correction)])

\* the loop from the i-th level on; acc holds current_value, values and
\* corrections
RECURSIVE schedule_loop(_, _, _, _, _)
schedule_loop(resolution_schedule, correction_per_resolution, fp_ulps, i, acc) ==
    IF i > Len(resolution_schedule) THEN acc
    ELSE LET correction == level_correction(resolution_schedule[i],
                                            correction_per_resolution)
             current_value == float_add(acc.current_value, correction,
                                        fp_ulps[i])
         IN  schedule_loop(
                 resolution_schedule, correction_per_resolution, fp_ulps, i + 1,
                 [current_value |-> current_value,
                  values |-> Append(acc.values, current_value),
                  corrections |-> Append(acc.corrections, correction)])

\* apply_resolution_schedule; the difference current_value - initial_value
\* of two nearby floats is exact.  An entry of the returned schedule is
\* <<>> for None and <<bits>> otherwise.
apply_resolution_schedule(initial_value, resolution_schedule, correction_per_resolution, fp_ulps) ==
    LET initial == [val |-> initial_value, ulps |-> 0]
        out == schedule_loop(resolution_schedule, correction_per_resolution,
                             fp_ulps, 1,
                             [current_value |-> initial,
                              values |-> <<initial>>,
                              corrections |-> <<0>>])
    IN  [raised |-> None,
         values_by_resolution |-> out.values,
         corrections_by_resolution |-> out.corrections,
         final_value |-> out.current_value,
         total_correction |->
             [val |-> out.current_value.val - initial.val,
              ulps |-> out.current_value.ulps - initial.ulps],
         resolution_schedule |->
             <<<<>>>> \o [i \in 1..Len(resolution_schedule) |->
                              <<resolution_schedule[i]>>]]

ApplyScheduleArgs ==
    UNION {[initial_value : ScheduleInitialValues,
            resolution_schedule : {sched},
            correction_per_resolution : CorrectionMaps,
            fp_ulps : SeqsOf({0, 1}, Len(sched), Len(sched))] :
           sched \in SeqsOf(ResolutionBits, 0, MaxLevels)}

\* the two validate_resolution_schedule functions.  An element of a schedule
\* is a Python number: an int or a float, its value given in halves.
MIN_RESOLUTION_BITS == 8
MAX_RESOLUTION_BITS == 32
ScheduleElements ==
    [type : {"int"}, halves : {14, 16, 32, 64, 66}]
        \cup [type : {"float"}, halves : {17, 32}]
ScheduleValidators ==
    {"utils.validation.validate_resolution_schedule",
     "config.resolution.validate_resolution_schedule"}

\* MIN_RESOLUTION_BITS <= bits <= MAX_RESOLUTION_BITS
in_resolution_range(bits) ==
    /\ 2 * MIN_RESOLUTION_BITS <= bits.halves
    /\ bits.halves <= 2 * MAX_RESOLUTION_BITS

\* utils.validation.validate_resolution_bits: the exception raised, or None
validate_resolution_bits(resolution_bits) ==
    IF resolution_bits.type # "int" THEN "ResolutionValidationError"
    ELSE IF ~in_resolution_range(resolution_bits)
    THEN "ResolutionValidationError"
    ELSE None

\* schedule != sorted(schedule): Python compares the numbers by value
differs_from_sorted(schedule) ==
    \E i \in 1..(Len(schedule) - 1) :
        schedule[i].halves > schedule[i + 1].halves

\* len(schedule) != len(set(schedule)): equal numbers are one set element
has_duplicates(schedule) ==
    Len(schedule) # Cardinality({schedule[i].halves : i \in 1..Len(schedule)})

\* utils.validation.validate_resolution_schedule
utils_validate_resolution_schedule(schedule) ==
    IF schedule = <<>>
    THEN [raised |-> "ResolutionValidationError"]
    ELSE IF \E i \in 1..Len(schedule) :
                validate_resolution_bits(schedule[i]) # None
    THEN [raised |-> "ResolutionValidationError"]
    ELSE IF differs_from_sorted(schedule)
    THEN [raised |-> "ResolutionValidationError"]
    ELSE IF has_duplicates(schedule)
    THEN [raised |-> "ResolutionValidationError"]
    ELSE [raised |-> None]

\* config.resolution.validate_resolution_schedule
config_validate_resolution_schedule(schedule) ==
    IF schedule = <<>>
    THEN [raised |-> "ValueError"]
    ELSE IF \E i \in 1..Len(schedule) : ~in_resolution_range(schedule[i])
    THEN [raised |-> "ValueError"]
    ELSE IF differs_from_sorted(schedule)
    THEN [raised |-> "ValueError"]
    ELSE [raised |-> None]

ValidateSchedule(fn, schedule) ==
    IF fn = "utils.validation.validate_resolution_schedule"
    THEN utils_validate_resolution_schedule(schedule)
    ELSE config_validate_resolution_schedule(schedule)

\* the result of a call that has not been made yet
Pending == [raised |-> "pending"]

\* the interpreter is about to call one function with one argument list
CalcInit ==
    /\ ProofIdle
    /\ OFFLINE_MODE = TRUE
    /\ ScriptsIdle
    /\ ConfigIdle
    /\ TestsIdle
    /\ result = Pending
    /\ \/ /\ op = "check_cross_survey_consistency"
          /\ args \in [survey_results :
                         SeqsOf({<<>>} \cup {<<b>> : b \in BaselineValues},
                                1, MaxSurveys)]
       \/ /\ op \in {"compare_three_surveys", "compare_three_surveys_api"}
          /\ args \in [all_baselines : [1..3 -> BaselineValues]]
       \/ /\ op \in DistanceFunctions
          /\ args \in DistanceArgs
       \/ /\ op \in Validators
          /\ args \in [cosmo : CosmoDicts, flat : BOOLEAN, fp_above : BOOLEAN]
       \/ /\ op = "calculate_tension_sigma"
          /\ args \in [value1 : TensionValues, sigma1 : SigmaValues,
                       value2 : TensionValues, sigma2 : SigmaValues]
       \/ /\ op = "weighted_mean"
          /\ args \in WeightedMeanArgs
       \/ /\ op = "joint_fit_parameter"
          /\ args \in MeasurementArgs(1)
       \/ /\ op = "trgb_tension_initial"
          /\ args \in [value1 : TensionValues, sigma1 : SigmaValues \ {-17},
                       value2 : TensionValues, sigma2 : SigmaValues \ {-17}]
       \/ /\ op \in CorrectionFunctions
          /\ args \in [z : Redshifts, baseline : CorrectionBaselines]
       \/ /\ op \in FitFunctions
          /\ args \in [bins : SeqsOf(FitBins, 0, MaxBins)]
       \/ /\ op \in {"multiresolution_tensor_calibration",
                     "perform_multiresolution_merge"}
          /\ args \in CalibrationArgs
       \/ /\ op = "apply_resolution_schedule"
          /\ args \in ApplyScheduleArgs
       \/ /\ op \in ScheduleValidators
          /\ args \in [schedule : SeqsOf(ScheduleElements, 0, MaxLevels)]

\* a call of check_cross_survey_consistency
CallCheckCrossSurveyConsistency ==
    /\ op = "check_cross_survey_consistency"
    /\ result = Pending
    /\ result' = check_cross_survey_consistency(args.survey_results)
    /\ UNCHANGED <<op, args, proofVars, scriptVars, cfgVars, testVars>>

\* the consistency test of compare_three_surveys
CallCompareThreeSurveysStatus ==
    /\ op = "compare_three_surveys"
    /\ result = Pending
    /\ result' = compare_three_surveys_status(args.all_baselines)
    /\ UNCHANGED <<op, args, proofVars, scriptVars, cfgVars, testVars>>

\* the consistency check of compare_three_surveys_api
CallCompareThreeSurveysApiStatus ==
    /\ op = "compare_three_surveys_api"
    /\ result = Pending
    /\ result' = compare_three_surveys_api_status(args.all_baselines)
    /\ UNCHANGED <<op, args, proofVars, scriptVars, cfgVars, testVars>>

\* a call of one of the three distance functions
CallDistance ==
    /\ op \in DistanceFunctions
    /\ result = Pending
    /\ result' = Distance(op, args.z, args.h0, args.omega_m, args.omega_lambda,
                          args.fp_above)
    /\ UNCHANGED <<op, args, proofVars, scriptVars, cfgVars, testVars>>

\* a call of one of the two cosmology validators
CallValidateCosmology ==
    /\ op \in Validators
    /\ result = Pending
    /\ result' = Validate(op, args.cosmo, args.flat, args.fp_above)
    /\ UNCHANGED <<op, args, proofVars, scriptVars, cfgVars, testVars>>

\* a call of calculate_tension_sigma
CallTensionSigma ==
    /\ op = "calculate_tension_sigma"
    /\ result = Pending
    /\ result' = calculate_tension_sigma(args.value1, args.sigma1,
                                         args.value2, args.sigma2)
    /\ UNCHANGED <<op, args, proofVars, scriptVars, cfgVars, testVars>>

\* a call of weighted_mean
CallWeightedMean ==
    /\ op = "weighted_mean"
    /\ result = Pending
    /\ result' = weighted_mean(args.values, args.sigmas)
                    @@ [mean_ulps |-> args.mean_ulps, sigma_ulps |-> args.sigma_ulps]
    /\ UNCHANGED <<op, args, proofVars, scriptVars, cfgVars, testVars>>

\* the combination and chi-squared summary of one parameter in
\* joint_fit_lambda_cdm
CallJointFitParameter ==
    /\ op = "joint_fit_parameter"
    /\ result = Pending
    /\ result' = joint_fit_parameter(args.values, args.sigmas)
    /\ UNCHANGED <<op, args, proofVars, scriptVars, cfgVars, testVars>>

\* a call of the correction model
CallCorrection ==
    /\ op \in CorrectionFunctions
    /\ result = Pending
    /\ result' = Correction(op, args.z, args.baseline)
    /\ UNCHANGED <<op, args, proofVars, scriptVars, cfgVars, testVars>>

\* a fit of the baseline to the observed corrections of some bins
CallFit ==
    /\ op \in FitFunctions
    /\ result = Pending
    /\ result' = Fit(op, [i \in 1..Len(args.bins) |-> args.bins[i].z],
                     [i \in 1..Len(args.bins) |-> args.bins[i].correction],
                     [i \in 1..Len(args.bins) |-> args.bins[i].fp_ulps])
    /\ UNCHANGED <<op, args, proofVars, scriptVars, cfgVars, testVars>>

\* the initial tension of the TRGB analysis
CallTrgbTension ==
    /\ op = "trgb_tension_initial"
    /\ result = Pending
    /\ result' = trgb_tension_initial(args.value1, args.sigma1,
                                      args.value2, args.sigma2)
    /\ UNCHANGED <<op, args, proofVars, scriptVars, cfgVars, testVars>>

\* a call of multiresolution_tensor_calibration
CallMultiresolutionTensorCalibration ==
    /\ op = "multiresolution_tensor_calibration"
    /\ result = Pending
    /\ result' = multiresolution_tensor_calibration(args.resolution_schedule,
                                                    args.delta_t, args.gap)
    /\ UNCHANGED <<op, args, proofVars, scriptVars, cfgVars, testVars>>

\* a request handled by perform_multiresolution_merge
CallPerformMultiresolutionMerge ==
    /\ op = "perform_multiresolution_merge"
    /\ result = Pending
    /\ result' = perform_multiresolution_merge(args.resolution_schedule,
                                               args.delta_t, args.gap)
    /\ UNCHANGED <<op, args, proofVars, scriptVars, cfgVars, testVars>>

\* a call of apply_resolution_schedule
CallApplyResolutionSchedule ==
    /\ op = "apply_resolution_schedule"
    /\ result = Pending
    /\ result' = apply_resolution_schedule(args.initial_value,
                                           args.resolution_schedule,
                                           args.correction_per_resolution,
                                           args.fp_ulps)
    /\ UNCHANGED <<op, args, proofVars, scriptVars, cfgVars, testVars>>

\* a call of one of the two validate_resolution_schedule functions
CallValidateResolutionSchedule ==
    /\ op \in ScheduleValidators
    /\ result = Pending
    /\ result' = ValidateSchedule(op, args.schedule)
    /\ UNCHANGED <<op, args, proofVars, scriptVars, cfgVars, testVars>>

CalcNext ==
    \/ CallCheckCrossSurveyConsistency
    \/ CallCompareThreeSurveysStatus
    \/ CallCompareThreeSurveysApiStatus
    \/ CallDistance
    \/ CallValidateCosmology
    \/ CallTensionSigma
    \/ CallWeightedMean
    \/ CallJointFitParameter
    \/ CallCorrection
    \/ CallFit
    \/ CallTrgbTension
    \/ CallMultiresolutionTensorCalibration
    \/ CallPerformMultiresolutionMerge
    \/ CallApplyResolutionSchedule
    \/ CallValidateResolutionSchedule

SpecCalc == CalcInit /\ [][CalcNext]_vars

(***************************************************************************)
(* SpecConfig: a caller uses the accessors of the configuration modules    *)
(* and changes the objects they return.                                    *)
(***************************************************************************)
\* the values a caller writes into an object it holds
CallerS8 == 900
CallerItem == 64
MaxAppends == 1

\* config.surveys.get_survey(name): the registered object itself
CallGetSurvey ==
    /\ \E name \in SURVEY_NAMES \cup {"unknown"} :
        IF name \in DOMAIN ALL_SURVEYS
        THEN /\ held' = [kind |-> "survey", ref |-> name]
             /\ observed' = [call |-> "get_survey", arg |-> name, raised |-> None,
                             value |-> ALL_SURVEYS[name]]
        ELSE /\ held' = [kind |-> "none"]
             /\ observed' = [call |-> "get_survey", arg |-> name,
                             raised |-> "ValueError"]
    /\ UNCHANGED <<ALL_SURVEYS, RESOLUTION_SCHEDULES, PLANCK_COSMO>>
    /\ UNCHANGED <<OFFLINE_MODE, now, apiVars, mainVars, scriptVars, calcVars,
                   testVars>>

\* config.surveys.get_survey_s8_values(): a new dictionary of tuples built
\* from the module constants
CallGetSurveyS8Values ==
    /\ LET value == [name \in SURVEY_NAMES |->
                        IF name = "kids" THEN <<KIDS_S8, KIDS_S8_SIGMA>>
                        ELSE IF name = "des" THEN <<DES_S8, DES_S8_SIGMA>>
                        ELSE <<HSC_S8, HSC_S8_SIGMA>>]
       IN  /\ held' = [kind |-> "s8_dict", value |-> value]
           /\ observed' = [call |-> "get_survey_s8_values", raised |-> None,
                           value |-> value]
    /\ UNCHANGED <<ALL_SURVEYS, RESOLUTION_SCHEDULES, PLANCK_COSMO>>
    /\ UNCHANGED <<OFFLINE_MODE, now, apiVars, mainVars, scriptVars, calcVars,
                   testVars>>

\* config.resolution.get_resolution_schedule(mode): a copy of the list
CallGetResolutionSchedule ==
    /\ \E mode \in ScheduleModes \cup {"unknown"} :
        IF mode \in DOMAIN RESOLUTION_SCHEDULES
        THEN /\ held' = [kind |-> "list", value |-> RESOLUTION_SCHEDULES[mode]]
             /\ observed' = [call |-> "get_resolution_schedule", arg |-> mode,
                             raised |-> None, value |-> RESOLUTION_SCHEDULES[mode]]
        ELSE /\ held' = [kind |-> "none"]
             /\ observed' = [call |-> "get_resolution_schedule", arg |-> mode,
                             raised |-> "ValueError"]
    /\ UNCHANGED <<ALL_SURVEYS, RESOLUTION_SCHEDULES, PLANCK_COSMO>>
    /\ UNCHANGED <<OFFLINE_MODE, now, apiVars, mainVars, scriptVars, calcVars,
                   testVars>>

\* config.constants.get_planck_cosmo(): a copy of the dictionary
CallGetPlanckCosmo ==
    /\ held' = [kind |-> "cosmo_dict", value |-> PLANCK_COSMO]
    /\ observed' = [call |-> "get_planck_cosmo", raised |-> None,
                    value |-> PLANCK_COSMO]
    /\ UNCHANGED <<ALL_SURVEYS, RESOLUTION_SCHEDULES, PLANCK_COSMO>>
    /\ UNCHANGED <<OFFLINE_MODE, now, apiVars, mainVars, scriptVars, calcVars,
                   testVars>>

\* the caller assigns an attribute of the SurveyMetadata object it holds
\* (the dataclass is not frozen)
CallerSetsAttribute ==
    /\ held.kind = "survey"
    /\ ALL_SURVEYS' = [ALL_SURVEYS EXCEPT ![held.ref].S8_measured = CallerS8]
    /\ UNCHANGED <<RESOLUTION_SCHEDULES, PLANCK_COSMO, held, observed>>
    /\ UNCHANGED <<OFFLINE_MODE, now, apiVars, mainVars, scriptVars, calcVars,
                   testVars>>

\* the caller appends to a list it holds: the z_effective list of a
\* SurveyMetadata object, or its copy of a schedule
CallerAppends ==
    /\ \/ /\ held.kind = "survey"
          /\ Len(ALL_SURVEYS[held.ref].z_effective)
                < Len(PublishedSurveys[held.ref].z_effective) + MaxAppends
          /\ ALL_SURVEYS' = [ALL_SURVEYS EXCEPT ![held.ref].z_effective =
                                Append(@, CallerItem)]
          /\ UNCHANGED held
       \/ /\ held.kind = "list"
          /\ Len(held.value) < Len(RESOLUTION_SCHEDULE_FULL) + MaxAppends
          /\ held' = [held EXCEPT !.value = Append(@, CallerItem)]
          /\ UNCHANGED ALL_SURVEYS
    /\ UNCHANGED <<RESOLUTION_SCHEDULES, PLANCK_COSMO, observed>>
    /\ UNCHANGED <<OFFLINE_MODE, now, apiVars, mainVars, scriptVars, calcVars,
                   testVars>>

\* the caller assigns an item of the dictionary it holds
CallerSetsItem ==
    /\ \/ /\ held.kind = "s8_dict"
          /\ \E name \in SURVEY_NAMES :
                held' = [held EXCEPT !.value[name] = <<CallerS8, CallerItem>>]
       \/ /\ held.kind = "cosmo_dict"
          /\ held' = [held EXCEPT !.value.h0 = CallerItem]
    /\ UNCHANGED <<ALL_SURVEYS, RESOLUTION_SCHEDULES, PLANCK_COSMO, observed>>
    /\ UNCHANGED <<OFFLINE_MODE, now, apiVars, mainVars, scriptVars, calcVars,
                   testVars>>

ConfigInit ==
    /\ ProofIdle
    /\ OFFLINE_MODE = TRUE
    /\ ScriptsIdle
    /\ CalcIdle
    /\ ConfigIdle
    /\ TestsIdle

ConfigNext ==
    \/ CallGetSurvey
    \/ CallGetSurveyS8Values
    \/ CallGetResolutionSchedule
    \/ CallGetPlanckCosmo
    \/ CallerSetsAttribute
    \/ CallerAppends
    \/ CallerSetsItem

SpecConfig == ConfigInit /\ [][ConfigNext]_vars

(***************************************************************************)
(* SpecTests: the validation test runner of test_implementation.py.  A     *)
(* test body passes its check, fails it, or raises an Exception.           *)
(***************************************************************************)
TestStatus == {"pending", "running", "passed", "failed", "skipped", "error"}
BodyOutcomes == {"passes", "fails", "raises"}

\* the categories in the order run_all_tests runs them, and their tests
Categories == <<1, 2, 3, 5, 8>>
SuiteTests ==
    (1 :> <<"1A.1", "1A.2">>) @@ (2 :> <<"2A.1", "2B.1">>)
        @@ (3 :> <<"3A.1", "3B.1">>) @@ (5 :> <<"5A.1", "5B.1">>)
        @@ (8 :> <<"8A.1", "8B.1">>)

\* TestSuite(suite_name): a suite without results
TestSuite(category) == [category |-> category, tests |-> <<>>]

\* a test method as it would be without its except branch
run_test_without_handler(test_id, outcome) ==
    IF outcome = "raises"
    THEN [raised |-> "Exception", result |-> <<>>]
    ELSE [raised |-> None,
          result |-> <<[test_id |-> test_id,
                        status |-> IF outcome = "passes" THEN "passed"
                                   ELSE "failed",
                        error_message |-> <<>>]>>]

\* a test method: the TestResult it returns; every method has the shape of
\* test_1a1_ngc4258_high_resolution, the whole body inside try and an
\* except Exception branch that returns an ERROR result
run_test(test_id, outcome) ==
    [raised |-> None,
     result |-> <<[test_id |-> test_id,
                   status |-> CASE outcome = "passes" -> "passed"
                                [] outcome = "fails" -> "failed"
                                [] outcome = "raises" -> "error",
                   error_message |-> IF outcome = "raises" THEN <<"str(e)">>
                                     ELSE <<>>]>>]

\* run_all_tests, lines 819-826: the banner; the first suite is constructed
StartRun ==
    /\ rpc = "idle"
    /\ rpc' = "running"
    /\ suite' = <<TestSuite(Categories[1])>>
    /\ UNCHANGED <<test_suites, body>>
    /\ UNCHANGED <<proofVars, scriptVars, calcVars, cfgVars>>

\* run_all of a suite: its next test method is called and the result is
\* added to the suite; an exception that leaves the method ends the run
RunTest ==
    /\ rpc = "running"
    /\ suite # <<>>
    /\ Len(suite[1].tests) < Len(SuiteTests[suite[1].category])
    /\ \E outcome \in BodyOutcomes :
        LET test_id == SuiteTests[suite[1].category][Len(suite[1].tests) + 1]
            r == run_test(test_id, outcome)
        IN  /\ body' = outcome
            /\ IF r.raised # None
               THEN /\ rpc' = "raised"
                    /\ suite' = suite
               ELSE /\ rpc' = rpc
                    /\ suite' = <<[suite[1] EXCEPT
                                      !.tests = Append(@, r.result[1])]>>
    /\ UNCHANGED test_suites
    /\ UNCHANGED <<proofVars, scriptVars, calcVars, cfgVars>>

\* run_all returns: the suite is appended to test_suites and summarised;
\* the next suite is constructed, or run_all_tests returns
FinishSuite ==
    /\ rpc = "running"
    /\ suite # <<>>
    /\ Len(suite[1].tests) = Len(SuiteTests[suite[1].category])
    /\ test_suites' = Append(test_suites, suite[1])
    /\ IF Len(test_suites') < Len(Categories)
       THEN /\ suite' = <<TestSuite(Categories[Len(test_suites') + 1])>>
            /\ rpc' = rpc
       ELSE /\ suite' = <<>>
            /\ rpc' = "returned"
    /\ UNCHANGED body
    /\ UNCHANGED <<proofVars, scriptVars, calcVars, cfgVars>>

TestsInit ==
    /\ ProofIdle
    /\ OFFLINE_MODE = TRUE
    /\ ScriptsIdle
    /\ CalcIdle
    /\ ConfigIdle
    /\ TestsIdle

TestsNext ==
    \/ StartRun
    \/ RunTest
    \/ FinishSuite

SpecTests == TestsInit /\ [][TestsNext]_vars

(***************************************************************************)
(* Claims about the proof script (specification Spec).                     *)
(***************************************************************************)

CacheChanges ==
    \/ CURRENT_API_KEY' # CURRENT_API_KEY
    \/ LAST_API_KEY_REQUEST_TIME' # LAST_API_KEY_REQUEST_TIME

RequestsSpaced ==
    \A i, j \in 1..Len(tokenRequestTimes) :
        i < j => tokenRequestTimes[j] - tokenRequestTimes[i]
                     >= API_KEY_REQUEST_INTERVAL

\* C3: with OFFLINE_MODE off, no two token requests are sent to the token
\* endpoint less than 60 seconds apart.
C3_RateLimit == ~OFFLINE_MODE => RequestsSpaced

\* C4 (as stated): with OFFLINE_MODE off, a run returns exit code 0 only if
\* no API call (token request or UHA encode request) failed.
C4_ExitZeroOnlyWithoutApiFailure ==
    (~OFFLINE_MODE /\ exitCode = <<0>>)
        => (~tokenFailedInRun /\ uhaUnavailable = 0)

\* C4 (amended): with OFFLINE_MODE off, whenever a token request fails during
\* a run of main the run ends with exit code 1, so a run returns 0 only if no
\* token request failed; a failed UHA encode request is caught, recorded as
\* uha_sample = API_UNAVAILABLE, and leaves the exit code as it is.
C4_TokenFailureExits ==
    ~OFFLINE_MODE =>
        /\ tokenFailedInRun => (pc = "exited" /\ exitCode = <<1>>)
        /\ exitCode = <<0>> => ~tokenFailedInRun
        /\ uhaUnavailable <= encodeRequests
        /\ (uhaUnavailable > 0 /\ pc \in {"step2", "step3", "final"})
              => exitCode = <<>>

\* C4 witness: a run returned 0 although a UHA encode request had failed.
C4_Witness ==
    /\ ~OFFLINE_MODE
    /\ pc = "returned"
    /\ exitCode = <<0>>
    /\ uhaUnavailable > 0

\* C18: while OFFLINE_MODE is true, no sequence of get_api_key calls, bin
\* analyses and main steps sends a request to the token endpoint or to the
\* UHA encode endpoint; every get_api_key call returns the demo key without
\* raising, and the cached key and the last-request time stay as they were at
\* module load.
C18_OfflineSendsNothing ==
    OFFLINE_MODE =>
        /\ tokenRequestTimes = <<>>
        /\ encodeRequests = 0
        /\ CURRENT_API_KEY = None
        /\ LAST_API_KEY_REQUEST_TIME = 0
        /\ lastCall.raised = None
        /\ ~lastCall.sent
        /\ lastCall.ret \in {None, DEMO_API_KEY}
        /\ pc \notin {"idle", "step1"} => lastCall.ret = DEMO_API_KEY

\* C18 witness: an offline run of main has analysed every bin and returned,
\* its step 1 having been given the demo key.
C18_Witness ==
    /\ OFFLINE_MODE
    /\ pc = "returned"
    /\ binsDone = TotalBins
    /\ lastCall.force_new
    /\ lastCall.ret = DEMO_API_KEY

\* a step in which get_api_key(force_new=False) is called: by an importer
\* before main, or by encode_uha_api while a bin is analysed online
UnforcedCallStep ==
    /\ ~lastCall'.force_new
    /\ \/ pc = "idle" /\ pc' = "idle" /\ now' = now
       \/ binsDone' # binsDone /\ ~OFFLINE_MODE

ErrorEntries ==
    {"ERROR: Failed to get API key", "ERROR: Analysis failed",
     "ERROR: Proof generation failed"}

\* the entries of a kind among those this run appended
EntriesIn(kind) == {i \in 1..Len(auditLog) : auditLog[i] \in kind}

KeysSorted(leaves) ==
    \A i, j \in 1..Len(leaves) :
        i < j => PathLess(leaves[i].path, leaves[j].path)

\* two objects hold the same leaves
SameLeaves(a, b) ==
    /\ Len(a) = Len(b)
    /\ {a[i] : i \in 1..Len(a)} = {b[i] : i \in 1..Len(b)}

\* C23: the expected_hash of the proof that a run wrote to
\* api_proof_results.json is the SHA3-512 of the canonical JSON (keys sorted,
\* indent 2) of the results which that run saved in
\* three_survey_api_validation.json.
C23_ExpectedHashOfSavedResults ==
    written[PROOF_FILE] = "complete" =>
        /\ written[RESULTS_FILE] = "complete"
        /\ LET expected_hash == savedProof[1].verification.expected_hash
               data == json_load(savedResults[1])
           IN  /\ expected_hash.algorithm = "sha3_512"
               /\ expected_hash.of.indent = 2
               /\ KeysSorted(expected_hash.of.leaves)
               /\ SameLeaves(expected_hash.of.leaves, data)
               /\ expected_hash = savedProof[1].hashes.sha3_512

\* C23 witness: an online run in which some UHA samples were unavailable
\* wrote both files and returned; the hashed canonical JSON lists the leaves
\* in another order than the saved results file does.
C23_Witness ==
    /\ ~OFFLINE_MODE
    /\ pc = "returned"
    /\ written[PROOF_FILE] = "complete"
    /\ uhaUnavailable > 0
    /\ savedProof[1].verification.expected_hash.of.leaves # savedResults[1].leaves

(***************************************************************************)
(* Claims about the file-driven scripts (specification SpecScripts).       *)
(***************************************************************************)

\* the input files of the script that are missing
MissingInputs == {f \in InputSet(script) : inputs[f] = "missing"}

\* C5: whenever an input JSON file that a script requires is missing, the
\* script reports the missing file with a message and terminates through
\* sys.exit(1), before writing any output file.
C5_MissingInputExits ==
    (script \in Scripts /\ spc = "done" /\ MissingInputs # {}) =>
        /\ termination = "sys.exit(1)"
        /\ reported \cap MissingInputs # {}
        /\ ~outputWritten

(***************************************************************************)
(* Claims about the numerical functions (specification SpecCalc).          *)
(***************************************************************************)

\* the call of one of the functions fns has been made
Done(fns) == op \in fns /\ result.raised # "pending"

ClassificationSites == {"check_cross_survey_consistency",
                        "compare_three_surveys", "compare_three_surveys_api"}

C7_OmegaMOutsideRangeRaises ==
    (Done(DistanceFunctions) /\ ~(0 < args.omega_m /\ args.omega_m < OMEGA_ONE)) =>
        result.raised # None

\* the dark-energy density a call uses: of a distance function the argument
\* or its default 1 - omega_m, of a validator the dictionary's entry if any
DensitySum ==
    IF op \in DistanceFunctions
    THEN IF args.omega_lambda = <<>> THEN <<OMEGA_ONE>>
         ELSE <<args.omega_m + args.omega_lambda[1]>>
    ELSE IF "omega_lambda" \in DOMAIN args.cosmo
         THEN <<args.cosmo.omega_m + args.cosmo.omega_lambda>>
         ELSE <<>>

\* how far the two densities of the call sum from 1, in two-hundredths
OffFlat == Abs(DensitySum[1] - OMEGA_ONE)

\* C8 as stated: every validator and every distance function rejects
\* densities that sum more than 0.01 away from 1, and none rejects for
\* non-flatness densities that sum within 0.01 of 1.
C8_FlatnessEverywhere ==
    (Done(DistanceFunctions \cup Validators) /\ DensitySum # <<>>) =>
        /\ OffFlat > FLAT_TOLERANCE => result.raised \notin {None}
        /\ OffFlat <= FLAT_TOLERANCE => result.reason # "non-flat"

\* the call checks flatness: a distance function always, a validator when its
\* flat_only / require_flat flag is true
ChecksFlatness == op \in DistanceFunctions \/ args.flat

\* C8: a distance function, and a validator whose flat flag is true, rejects
\* densities that sum more than 0.01 away from 1 (the distance function
\* before anything else); a validator whose flag is false never rejects for
\* non-flatness; and no function rejects for non-flatness densities that sum
\* less than 0.01 away from 1.
C8_FlatnessWhereChecked ==
    (Done(DistanceFunctions \cup Validators) /\ DensitySum # <<>>) =>
        /\ (ChecksFlatness /\ OffFlat > FLAT_TOLERANCE) =>
              /\ result.raised \notin {None}
              /\ op \in DistanceFunctions => result.reason = "non-flat"
        /\ ~ChecksFlatness => result.reason # "non-flat"
        /\ OffFlat < FLAT_TOLERANCE => result.reason # "non-flat"

\* C8 witness: a validator called with its flat flag false accepted densities
\* that sum more than 0.01 away from 1.
C8_Witness ==
    /\ Done(Validators)
    /\ ~args.flat
    /\ DensitySum # <<>>
    /\ OffFlat > FLAT_TOLERANCE
    /\ result.raised = None

\* C9: the tension function and the weighted combination fail with an error,
\* and return no number, when an uncertainty is zero or negative.
C9_UncertaintiesValidated ==
    /\ (Done({"calculate_tension_sigma"})
          /\ (args.sigma1 <= 0 \/ args.sigma2 <= 0)) => result.raised # None
    /\ (Done({"weighted_mean"})
          /\ \E i \in 1..Len(args.sigmas) : args.sigmas[i] <= 0) =>
             result.raised # None

C11_MinusOneRejected ==
    /\ (Done(CorrectionFunctions) /\ args.z.val = -1) => result.raised # None
    /\ (Done(CorrectionFunctions) /\ args.z.val # -1) => result.raised = None
    /\ (Done(FitFunctions) /\ \E i \in 1..Len(args.bins) : args.bins[i].z.val = -1) =>
          result.raised # None

\* the bins of the fit are the corrections that the correction function
\* generates with baseline A at redshifts z >= 0
GeneratedWith(A) ==
    /\ Len(args.bins) >= 1
    /\ \A i \in 1..Len(args.bins) :
          /\ args.bins[i].z.val >= 0
          /\ args.bins[i].correction =
                calculate_redshift_dependent_correction(args.bins[i].z, A).value

\* C13 as stated: the fit of corrections generated with baseline A returns
\* exactly A, with dispersion exactly 0 and residual exactly 0.
C13_RoundTripExact ==
    \A A \in {14, 20} :
        (Done(FitFunctions) /\ GeneratedWith(A)) =>
            /\ result.baseline.num = A * result.baseline.den
            /\ result.baseline_ulps.num = 0
            /\ result.baseline_std.num = 0
            /\ result.baseline_std_ulps.num = 0
            /\ result.rms_residual.num = 0
            /\ result.rms_residual_ulps.num = 0

\* C13: the fit of corrections generated with baseline A returns A with zero
\* dispersion and zero residual up to floating-point rounding: the exact
\* parts are A, 0 and 0, and the rounding parts vanish when every z factor
\* is 1.0 or 0.5.
C13_RoundTripUpToRounding ==
    \A A \in {14, 20} :
        (Done(FitFunctions) /\ GeneratedWith(A)) =>
            /\ result.raised = None /\ result.kind = "finite"
            /\ result.rms_kind = "finite"
            /\ result.baseline.num = A * result.baseline.den
            /\ result.baseline_std.num = 0
            /\ result.rms_residual.num = 0
            /\ (\A i \in 1..Len(args.bins) : args.bins[i].z.val \in {0, 3}) =>
                  /\ result.baseline_ulps.num = 0
                  /\ result.baseline_std_ulps.num = 0
                  /\ result.rms_residual_ulps.num = 0

\* C13 witness: a fit of two generated bins, one of them with a quotient
\* that rounding moved, returned the baseline with a nonzero dispersion.
C13_Witness ==
    /\ Done(FitFunctions)
    /\ GeneratedWith(14)
    /\ Len(args.bins) = 2
    /\ result.baseline.num = 14 * result.baseline.den
    /\ result.baseline_std_ulps.num > 0

\* z1 < z2 for two redshifts
ZLess(z1, z2) == z1.val < z2.val \/ (z1.val = z2.val /\ ~z1.above /\ z2.above)

\* a > b for two fractions with positive denominators
FracGreater(a, b) == a.num * b.den > b.num * a.den

IdenticalMeasurements ==
    /\ Done({"weighted_mean"})
    /\ Len(args.values) >= 1
    /\ args.sigmas[1] > 0
    /\ \A i \in 1..Len(args.values) :
          args.values[i] = args.values[1] /\ args.sigmas[i] = args.sigmas[1]

\* the exact combined sigma^2 of one more identical measurement
SigmaSqWithOneMore ==
    weighted_mean(Append(args.values, args.values[1]),
                  Append(args.sigmas, args.sigmas[1])).sigma_sq

\* C16 as stated: N identical measurements (v, s) combine to exactly the
\* mean v and the uncertainty s / sqrt(N), which strictly decreases with N.
C16_IdenticalMeasurementsExact ==
    IdenticalMeasurements =>
        /\ result.raised = None
        /\ result.mean.num = args.values[1] * result.mean.den
        /\ result.mean_ulps = 0
        /\ result.sigma_sq.num * Len(args.values)
              = args.sigmas[1] * args.sigmas[1] * result.sigma_sq.den
        /\ result.sigma_ulps = 0
        /\ FracGreater(result.sigma_sq, SigmaSqWithOneMore)

\* C16: N identical measurements (v, s) combine to the mean v and the
\* uncertainty s / sqrt(N) up to floating-point rounding (the exact parts
\* are v and s / sqrt(N)), and the uncertainty strictly decreases with N.
C16_IdenticalMeasurementsUpToRounding ==
    IdenticalMeasurements =>
        /\ result.raised = None
        /\ result.mean.num = args.values[1] * result.mean.den
        /\ result.sigma_sq.num * Len(args.values)
              = args.sigmas[1] * args.sigmas[1] * result.sigma_sq.den
        /\ FracGreater(result.sigma_sq, SigmaSqWithOneMore)

\* C16 witness: two identical measurements were combined and rounding moved
\* the returned mean.
C16_Witness ==
    /\ IdenticalMeasurements
    /\ Len(args.values) = 2
    /\ result.raised = None
    /\ result.mean.num = args.values[1] * result.mean.den
    /\ result.mean_ulps # 0

\* C17: check_cross_survey_consistency raises ValueError when a survey's
\* results lack 'baseline', and otherwise returns consistent = True exactly
\* when the standard deviation of the baselines is below 0.003.
C17_ConsistentExactlyBelowExcellent ==
    Done({"check_cross_survey_consistency"}) =>
        IF \E i \in 1..Len(args.survey_results) : args.survey_results[i] = <<>>
        THEN result.raised = "ValueError"
        ELSE /\ result.raised = None
             /\ result.consistent <=> StdBelow(result.std_baseline, 3)

\* the levels of the schedule of the call that meet both thresholds
QualifyingLevels ==
    LET conc == concordance_pct(args.gap)
    IN  {i \in 1..Len(effective_schedule(args.resolution_schedule)) :
            /\ args.delta_t[i].kind = "num"
            /\ args.delta_t[i].val < 15
            /\ conc.num > 95 * conc.den}

\* C20: multiresolution_tensor_calibration processes the levels of the
\* schedule in order and stops right after the first level with
\* delta_t < 0.15 and concordance > 95: the returned results are the levels
\* up to and including that one, or the whole schedule when no level
\* qualifies, and converged is true exactly when the last returned level
\* meets both thresholds.
C20_StopsAtFirstConvergedLevel ==
    Done({"multiresolution_tensor_calibration"}) =>
        LET schedule == effective_schedule(args.resolution_schedule)
            stop == IF QualifyingLevels = {} THEN Len(schedule)
                    ELSE CHOOSE i \in QualifyingLevels :
                             \A j \in QualifyingLevels : i <= j
            last == result.results[Len(result.results)]
        IN  /\ result.raised = None
            /\ Len(result.results) = stop
            /\ \A i \in 1..stop :
                   /\ result.results[i].resolution_bits = schedule[i]
                   /\ result.results[i].delta_t = args.delta_t[i]
            /\ result.converged <=>
                   /\ result.results # <<>>
                   /\ last.delta_t.kind = "num"
                   /\ last.delta_t.val < 15
                   /\ last.concordance_pct.num > 95 * last.concordance_pct.den

\* C20 witness: a call over three levels left the loop at the second level:
\* the first level did not qualify, and the third, which would have, was
\* not run.
C20_Witness ==
    /\ Done({"multiresolution_tensor_calibration"})
    /\ args.resolution_schedule # <<>>
    /\ Len(args.resolution_schedule[1]) = 3
    /\ Len(result.results) = 2
    /\ result.converged
    /\ args.delta_t[3].kind = "num"
    /\ args.delta_t[3].val < 15

\* C22: perform_multiresolution_merge returns a response for every request
\* the request model accepts, a request with an empty resolution_schedule
\* included.
C22_EveryAcceptedRequestAnswered ==
    Done({"perform_multiresolution_merge"}) =>
        /\ result.raised = None
        /\ result.success

\* the lists have one entry more than the schedule, start from the initial
\* value and a correction of 0, each value is the float sum of the previous
\* value and the correction of its step, which is the map's entry for the
\* level or 0 when there is none, and final_value is the last value
ScheduleListsAsClaimed ==
    LET n == Len(args.resolution_schedule)
        values == result.values_by_resolution
        corrections == result.corrections_by_resolution
    IN  /\ Len(values) = n + 1
        /\ Len(corrections) = n + 1
        /\ values[1] = [val |-> args.initial_value, ulps |-> 0]
        /\ corrections[1] = 0
        /\ \A i \in 1..n :
               /\ corrections[i + 1] =
                      IF args.resolution_schedule[i]
                             \in DOMAIN args.correction_per_resolution
                      THEN args.correction_per_resolution[
                               args.resolution_schedule[i]]
                      ELSE 0
               /\ values[i + 1].val = values[i].val + corrections[i + 1]
               /\ values[i + 1].ulps - values[i].ulps \in {0, args.fp_ulps[i]}
               /\ corrections[i + 1] = 0 => values[i + 1] = values[i]
        /\ result.final_value = values[n + 1]

StrictlyIncreasingLevels(schedule) ==
    /\ schedule # <<>>
    /\ \A i \in 1..Len(schedule) :
           /\ schedule[i].type = "int"
           /\ 16 <= schedule[i].halves /\ schedule[i].halves <= 64
    /\ \A i \in 1..(Len(schedule) - 1) :
           schedule[i].halves < schedule[i + 1].halves

\* C25: both validate_resolution_schedule functions (utils.validation and
\* config.resolution) accept exactly the non-empty, strictly increasing lists
\* of integers in [8, 32] and reject every other list, one with a repeated
\* level included, with an error.
C25_ValidatorsAcceptSameSchedules ==
    Done(ScheduleValidators) =>
        (result.raised = None <=> StrictlyIncreasingLevels(args.schedule))

(***************************************************************************)
(* Claims about the configuration modules (specification SpecConfig).      *)
(***************************************************************************)

\* C12: whatever calls were made and whatever callers changed in the objects
\* they got, every accessor call returns the published values.
C12_ReferenceDataImmutable ==
    /\ (observed.call = "get_survey" /\ observed.raised = None) =>
          observed.value = PublishedSurveys[observed.arg]
    /\ observed.call = "get_survey_s8_values" =>
          \A name \in SURVEY_NAMES :
              observed.value[name] = <<PublishedSurveys[name].S8_measured,
                                       PublishedSurveys[name].S8_sigma>>
    /\ (observed.call = "get_resolution_schedule" /\ observed.raised = None) =>
          observed.value = PublishedSchedules[observed.arg]
    /\ observed.call = "get_planck_cosmo" => observed.value = PublishedPlanck

(***************************************************************************)
(* Claims about the validation test runner (specification SpecTests).      *)
(***************************************************************************)
\* the results recorded so far, in the order they were recorded
RecordedResults ==
    LET RECURSIVE Flatten(_)
        Flatten(suites) == IF suites = <<>> THEN <<>>
                           ELSE suites[1].tests \o Flatten(Tail(suites))
    IN  Flatten(test_suites) \o (IF suite = <<>> THEN <<>> ELSE suite[1].tests)

\* C26: run_all_tests runs the five suites in the order 1, 2, 3, 5, 8 and
\* records exactly two results per suite, each with status PASSED, FAILED,
\* SKIPPED or ERROR, never PENDING or RUNNING; an exception raised inside a
\* test body gives an ERROR result and does not stop the run.
C26_FiveSuitesTwoResultsEach ==
    /\ rpc # "raised"
    /\ Len(test_suites) <= 5
    /\ rpc = "returned" => Len(test_suites) = 5
    /\ \A i \in 1..Len(test_suites) :
           /\ test_suites[i].category = <<1, 2, 3, 5, 8>>[i]
           /\ Len(test_suites[i].tests) = 2
    /\ suite # <<>> =>
           /\ suite[1].category = <<1, 2, 3, 5, 8>>[Len(test_suites) + 1]
           /\ Len(suite[1].tests) <= 2
    /\ \A i \in 1..Len(RecordedResults) :
           RecordedResults[i].status \in {"passed", "failed", "skipped", "error"}
    /\ body # "none" =>
           /\ RecordedResults # <<>>
           /\ (body = "raises")
                  <=> (RecordedResults[Len(RecordedResults)].status = "error")

\* C26 witness: the run returned after the body of the first test of suite 1
\* and the body of the last test of suite 8 had raised.
C26_Witness ==
    /\ rpc = "returned"
    /\ Len(test_suites) = 5
    /\ test_suites[1].tests[1].status = "error"
    /\ test_suites[3].tests[2].status = "passed"
    /\ test_suites[5].tests[2].status = "error"
    /\ body = "raises"

====
